---------------------------- MODULE Spec2Model ----------------------------
(***************************************************************************)
(* A model of the SolrCloud reconciler (controllers/solrcloud_controller.go)*)
(* One reconciliation pass (Reconcile) is one action: it is run to          *)
(* completion, and it is computed as a pipeline of steps over a pass        *)
(* context that holds the API server's objects, the in-memory instance,     *)
(* the pass's local variables and the log of the API calls it issued.       *)
(* The other actions are the world outside the operator: the user, the      *)
(* StatefulSet controller, the certificate issuer, the garbage collector    *)
(* and the coordination ensemble.                                           *)
(***************************************************************************)
EXTENDS Integers, Sequences, FiniteSets, TLC

VARIABLES
    cloud,      \* the SolrCloud object as the API server stores it
    res,        \* the managed objects, by key: [present, spec, owner]
    stsStatus,  \* the live StatefulSet's status
    pods,       \* the live pods: ordinal -> pod record
    pvcs,       \* the ordinals of the persistent volume claims matching the selector
    zkStore,    \* the coordination ensemble: reachability and the clusterprops node
    useZkCRD,   \* the process-level flag set by UseZkCRD
    faults,     \* the kinds of object on which an API call may fail
    pass        \* what the last pass did: its API calls and its result

vars == <<cloud, res, stsStatus, pods, pvcs, zkStore, useZkCRD, faults, pass>>

----------------------------------------------------------------------------
\* Bounds of the model

\* the largest desired replica count
MaxReplicas == 2

\* the largest resource version of the TLS secret
MaxSecretVersion == 2

----------------------------------------------------------------------------
\* Program constants

\* requeue delays, in seconds
SelfSignedWait == 2

IssuerWait == 30

ZkWait == 5

FinalizerWait == 10

UpdateWait == 15

----------------------------------------------------------------------------
\* Strings are sequences of tokens, so that Contains and Join are computed

Contains(str, tok) == \E i \in 1..Len(str) : str[i] = tok

RECURSIVE Join(_, _)
Join(strs, sep) ==
    IF Len(strs) = 0 THEN <<>>
    ELSE IF Len(strs) = 1 THEN strs[1]
    ELSE strs[1] \o <<sep>> \o Join(Tail(strs), sep)

\* md5.Sum of a solr.xml, printed with %x: a value that is determined by the
\* content and differs from the empty string
Md5(content) == <<"md5", content>>

NoMd5 == <<>>


----------------------------------------------------------------------------
\* Objects of the orchestration API

\* an object that does not exist
Absent == [present |-> FALSE, spec |-> <<>>, owner |-> FALSE]

\* an object created by the operator carries the owner reference
Owned(spec) == [present |-> TRUE, spec |-> spec, owner |-> TRUE]

\* an object created by somebody else
Foreign(spec) == [present |-> TRUE, spec |-> spec, owner |-> FALSE]

\* a pod as the StatefulSet controller creates it
NewPod(revision, tag) ==
    [ready |-> FALSE, revision |-> revision, hasStatus |-> TRUE, started |-> FALSE,
     version |-> tag, backupVolume |-> FALSE, uid |-> 1]

\* the pod the StatefulSet controller puts in the place of a pod that has gone:
\* the same name, another UID (successive pods of a name are told apart; two
\* values are enough for that)
Replacement(pod, template) == [NewPod(template, template.tag) EXCEPT !.uid = 3 - pod.uid]

NodeKey(i) == "node-" \o ToString(i)

Ordinals == 0..(MaxReplicas - 1)

ResKeys ==
    {"common", "headless", "configMap", "providedCM", "statefulSet", "ingress",
     "zk", "keystore", "issuer", "cert", "tlsSecret"} \cup {NodeKey(i) : i \in Ordinals}

\* the zero value of appsv1.StatefulSetStatus
NoStsStatus == [replicas |-> 0, readyReplicas |-> 0, updateRevision |-> <<>>]

\* the zero value of solr.ZookeeperConnectionInfo
NoZkInfo == [internal |-> <<>>, external |-> <<>>, chroot |-> <<>>]

\* the zero value of solr.SolrCloudStatus
NoStatus ==
    [replicas |-> 0, readyReplicas |-> 0, upToDateNodes |-> 0, solrNodes |-> <<>>,
     version |-> "", targetVersion |-> "", zk |-> NoZkInfo,
     urlSchemeClusterProperty |-> FALSE, backupRestoreReady |-> FALSE,
     internalCommonAddress |-> <<>>, externalCommonAddress |-> <<>>]

----------------------------------------------------------------------------
\* The pass context and its API calls

NoError == "nil"

\* the context a pass starts from; fail is the index of the API call that
\* fails in this pass (0: none); policy is the availability policy's answer,
\* raced whether the ensemble's node changes between the pass's read and its
\* write, order the order in which the pods are listed, replaced the pods
\* that are replaced between the pass's list and its delete
NewPass(objects, fail, policy, raced, order, replaced) ==
    [cloud |-> cloud, res |-> objects, stsStatus |-> stsStatus, pods |-> pods,
     pvcs |-> pvcs, zkStore |-> zkStore, useZkCRD |-> useZkCRD,
     fail |-> fail, policy |-> policy, raced |-> raced, order |-> order,
     replaced |-> replaced,
     calls |-> <<>>, desired |-> <<>>,
     done |-> FALSE, err |-> NoError, requeue |-> FALSE, requeueAfter |-> 0,
     instance |-> cloud, newStatus |-> NoStatus,
     blockReconciliationOfStatefulSet |-> FALSE,
     hostNameIpMap |-> {}, solrXmlConfigMapName |-> "configMap",
     solrXmlMd5 |-> NoMd5, needsPkcs12InitContainer |-> FALSE,
     pvcLabelSelector |-> FALSE, statefulSetStatus |-> NoStsStatus,
     tlsChecked |-> FALSE, tlsReady |-> FALSE, tlsErr |-> NoError,
     storageErr |-> NoError, deleteErr |-> NoError, foundTLSSecret |-> FALSE, urlUpdated |-> FALSE, urlErr |-> NoError,
     outOfDatePods |-> <<>>, outOfDatePodsNotStarted |-> <<>>,
     availableUpdatedPodCount |-> 0, additionalPodsToUpdate |-> <<>>]

\* whether the next API call of the pass is the one that fails
Fails(s) == Len(s.calls) + 1 = s.fail

\* the pass after one more API call, logged with its outcome
Logged(s, op, kind, name, found, items) ==
    [s EXCEPT !.calls = Append(@, [op |-> op, kind |-> kind, name |-> name,
                                   ok |-> ~Fails(s), found |-> found, items |-> items])]

\* the pass returns with this error
Return(s, err) == [s EXCEPT !.done = TRUE, !.err = err]

\* (a step runs only while the pass has not returned: each step of the pass
\* leaves a pass that has returned as it is)

----------------------------------------------------------------------------
\* The collaborators the pass calls: resource generation, field copy, defaulting

\* instance.WithDefaults: whether defaulting changed the instance
WithDefaults(instance) == ~instance.defaulted

\* util.Generate<Resource> for the kinds whose content the pass does not compute
GenerateSimple(key) == <<"generated", key>>

\* the solr.xml of the generated ConfigMap
GeneratedSolrXml == <<"<solr>", "${hostPort:", "80}", "</solr>">>

\* util.GenerateConfigMap
GenerateConfigMap(instance) == [data |-> TRUE, hasSolrXml |-> TRUE, solrXml |-> GeneratedSolrXml]

\* util.Copy<Resource>Fields: whether the desired fields differ from the live ones
\* (the copy itself is the assignment of desired to the live object's fields)
CopyFields(desired, found) == found.spec # desired

\* status.ZkConnectionString(): the internal connection string and the chroot
ZkConnectionString(status) == status.zk.internal \o status.zk.chroot

\* instance.GetAllSolrNodeNames(): one node per desired replica
GetAllSolrNodeNames(instance) == 0..(instance.spec.replicas - 1)

----------------------------------------------------------------------------
\* Reconcile, lines 92-116: fetch the instance and default it

\* r.Update(instance): the stored object takes the instance's metadata and
\* spec; the status is a subresource and is not written by Update
Stored(stored, instance) == [instance EXCEPT !.status = stored.status]

FetchInstance(s) ==
    IF Fails(s) THEN Return(Logged(s, "get", "SolrCloud", "cloud", FALSE, {}), "api")
    ELSE IF ~s.cloud.present
    THEN Return(Logged(s, "get", "SolrCloud", "cloud", FALSE, {}), NoError)
    ELSE [Logged(s, "get", "SolrCloud", "cloud", TRUE, {}) EXCEPT !.instance = s.cloud]

SetDefaults(s) ==
    IF s.done THEN s ELSE
    IF ~WithDefaults(s.instance) THEN s
    ELSE LET defaulted == [s.instance EXCEPT !.defaulted = TRUE]
             u == Logged(s, "update", "SolrCloud", "cloud", TRUE, {})
         IN  IF Fails(s) THEN Return(u, "api")
             ELSE Return([u EXCEPT !.instance = defaulted,
                                   !.cloud = Stored(s.cloud, defaulted),
                                   !.requeue = TRUE], NoError)

----------------------------------------------------------------------------
\* The create-or-update of one resource (lines 134-148, and the same shape
\* for every other kind): get; create if absent; update if the copy changed

\* the object a util.Generate function returned for a resource of the pass
Generated(s, key, desired) == [s EXCEPT !.desired = (key :> desired) @@ @]

\* the create-or-update that updates whatever it finds
CreateOrUpdate_UpdateAlways(s, kind, key, desired) ==
    IF Fails(s)
    THEN Return(Logged(Generated(s, key, desired), "get", kind, key, FALSE, {}), "api")
    ELSE LET found == s.res[key]
             g == Logged(Generated(s, key, desired), "get", kind, key, found.present, {})
         IN  IF ~found.present
             THEN IF Fails(g) THEN Return(Logged(g, "create", kind, key, FALSE, {}), "api")
                  ELSE [Logged(g, "create", kind, key, FALSE, {})
                           EXCEPT !.res[key] = Owned(desired)]
             ELSE IF Fails(g) THEN Return(Logged(g, "update", kind, key, TRUE, {}), "api")
                  ELSE [Logged(g, "update", kind, key, TRUE, {})
                           EXCEPT !.res[key].spec = desired]

CreateOrUpdate(s, kind, key, desired) ==
    IF Fails(s)
    THEN Return(Logged(Generated(s, key, desired), "get", kind, key, FALSE, {}), "api")
    ELSE LET found == s.res[key]
             g == Logged(Generated(s, key, desired), "get", kind, key, found.present, {})
         IN  IF ~found.present
             THEN IF Fails(g) THEN Return(Logged(g, "create", kind, key, FALSE, {}), "api")
                  ELSE [Logged(g, "create", kind, key, FALSE, {})
                           EXCEPT !.res[key] = Owned(desired)]
             ELSE IF CopyFields(desired, found)
             THEN IF Fails(g) THEN Return(Logged(g, "update", kind, key, TRUE, {}), "api")
                  ELSE [Logged(g, "update", kind, key, TRUE, {})
                           EXCEPT !.res[key].spec = desired]
             ELSE g

----------------------------------------------------------------------------
\* reconcileZk, lines 596-644

\* the hostname:port of replica i of the managed ensemble
ZkHost(i) == <<"zk-" \o ToString(i), ":", "2181">>

\* the comma-joined hosts of the managed ensemble's replicas
ZkInternal(replicas) == Join([i \in 1..replicas |-> ZkHost(i - 1)], ",")

\* reconcileZk creating the managed ensemble whether or not the operator uses
\* the Zookeeper CRD
reconcileZk_WithoutCRD(s) ==
    IF s.done THEN s ELSE
    LET zkRef == s.instance.spec.zkRef IN
    IF zkRef.connectionInfo
    THEN [s EXCEPT !.newStatus.zk = [internal |-> zkRef.internal, external |-> <<>>,
                                     chroot |-> zkRef.chroot]]
    ELSE IF zkRef.provided
    THEN IF Fails(s)
         THEN Return(Logged(Generated(s, "zk", GenerateSimple("zk")),
                            "get", "ZookeeperCluster", "zk", FALSE, {}), "api")
         ELSE LET found == s.res["zk"]
                  desired == GenerateSimple("zk")
                  g == Logged(Generated(s, "zk", desired),
                              "get", "ZookeeperCluster", "zk", found.present, {})
                  info == [internal |-> ZkInternal(zkRef.replicas), external |-> <<>>,
                           chroot |-> zkRef.chroot]
              IN  IF ~found.present
                  THEN IF Fails(g)
                       THEN Return(Logged(g, "create", "ZookeeperCluster", "zk", FALSE, {}), "api")
                       ELSE [Logged(g, "create", "ZookeeperCluster", "zk", FALSE, {})
                                EXCEPT !.res["zk"] = Owned(desired)]
                  ELSE IF CopyFields(desired, found)
                  THEN IF Fails(g)
                       THEN Return([Logged(g, "update", "ZookeeperCluster", "zk", TRUE, {})
                                       EXCEPT !.newStatus.zk = info], "api")
                       ELSE [Logged(g, "update", "ZookeeperCluster", "zk", TRUE, {})
                                EXCEPT !.res["zk"].spec = desired, !.newStatus.zk = info]
                  ELSE [g EXCEPT !.newStatus.zk = info]
    ELSE Return(s, "badrequest")

reconcileZk(s) ==
    IF s.done THEN s ELSE
    LET zkRef == s.instance.spec.zkRef IN
    IF zkRef.connectionInfo
    THEN [s EXCEPT !.newStatus.zk = [internal |-> zkRef.internal, external |-> <<>>,
                                     chroot |-> zkRef.chroot]]
    ELSE IF zkRef.provided
    THEN IF ~s.useZkCRD THEN Return(s, "badrequest")
         ELSE IF Fails(s)
         THEN Return(Logged(Generated(s, "zk", GenerateSimple("zk")),
                            "get", "ZookeeperCluster", "zk", FALSE, {}), "api")
         ELSE LET found == s.res["zk"]
                  desired == GenerateSimple("zk")
                  g == Logged(Generated(s, "zk", desired),
                              "get", "ZookeeperCluster", "zk", found.present, {})
                  info == [internal |-> ZkInternal(zkRef.replicas), external |-> <<>>,
                           chroot |-> zkRef.chroot]
              IN  IF ~found.present
                  THEN IF Fails(g)
                       THEN Return(Logged(g, "create", "ZookeeperCluster", "zk", FALSE, {}), "api")
                       ELSE [Logged(g, "create", "ZookeeperCluster", "zk", FALSE, {})
                                EXCEPT !.res["zk"] = Owned(desired)]
                  ELSE IF CopyFields(desired, found)
                  THEN IF Fails(g)
                       THEN Return([Logged(g, "update", "ZookeeperCluster", "zk", TRUE, {})
                                       EXCEPT !.newStatus.zk = info], "api")
                       ELSE [Logged(g, "update", "ZookeeperCluster", "zk", TRUE, {})
                                EXCEPT !.res["zk"].spec = desired, !.newStatus.zk = info]
                  ELSE [g EXCEPT !.newStatus.zk = info]
    ELSE Return(s, "badrequest")

----------------------------------------------------------------------------
\* Reconcile, lines 128-194: the Services

ReconcileCommonService(s) ==
    IF s.done THEN s ELSE
    CreateOrUpdate(s, "Service", "common", GenerateSimple("common"))

\* reconcileNodeService, lines 567-594, with the caller's use of the IP
\* (lines 156-169): the IP is known only of a Service that was found
reconcileNodeService(s, i) ==
    LET wasFound == s.res[NodeKey(i)].present
        t == CreateOrUpdate(s, "Service", NodeKey(i), GenerateSimple("node"))
    IN  IF t.done \/ ~s.instance.spec.useExternalAddress THEN t
        ELSE IF ~wasFound THEN [t EXCEPT !.blockReconciliationOfStatefulSet = TRUE]
        ELSE [t EXCEPT !.hostNameIpMap = @ \cup {i}]

RECURSIVE NodeServicesFrom(_, _)
NodeServicesFrom(s, i) ==
    IF s.done \/ i >= s.instance.spec.replicas THEN s
    ELSE NodeServicesFrom(reconcileNodeService(s, i), i + 1)

ReconcileNodeServices(s) ==
    IF s.done THEN s ELSE
    IF s.instance.spec.nodeServices THEN NodeServicesFrom(s, 0) ELSE s

ReconcileHeadlessService(s) ==
    IF s.done THEN s ELSE
    IF s.instance.spec.headless
    THEN CreateOrUpdate(s, "Service", "headless", GenerateSimple("headless"))
    ELSE s

----------------------------------------------------------------------------
\* Reconcile, lines 196-251: the ConfigMap holding solr.xml

\* the check of the user's ConfigMap letting one without a solr.xml entry pass
ReconcileProvidedConfigMap_SolrXmlOptional(s) ==
    LET found == s.res["providedCM"]
        g == Logged(s, "get", "ConfigMap", "providedCM", found.present, {})
    IN  IF Fails(s) THEN Return(Logged(s, "get", "ConfigMap", "providedCM", FALSE, {}), "api")
        ELSE IF ~found.present THEN Return(g, "notfound")
        ELSE IF ~found.spec.data THEN Return(g, "cm-nodata")
        ELSE IF ~found.spec.hasSolrXml THEN g
        ELSE IF ~Contains(found.spec.solrXml, "${hostPort:") THEN Return(g, "cm-nohostport")
        ELSE [g EXCEPT !.solrXmlMd5 = Md5(found.spec.solrXml),
                       !.solrXmlConfigMapName = "providedCM"]

ReconcileProvidedConfigMap(s) ==
    LET found == s.res["providedCM"]
        g == Logged(s, "get", "ConfigMap", "providedCM", found.present, {})
    IN  IF Fails(s) THEN Return(Logged(s, "get", "ConfigMap", "providedCM", FALSE, {}), "api")
        ELSE IF ~found.present THEN Return(g, "notfound")
        ELSE IF ~found.spec.data THEN Return(g, "cm-nodata")
        ELSE IF ~found.spec.hasSolrXml THEN Return(g, "cm-nosolrxml")
        ELSE IF ~Contains(found.spec.solrXml, "${hostPort:") THEN Return(g, "cm-nohostport")
        ELSE [g EXCEPT !.solrXmlMd5 = Md5(found.spec.solrXml),
                       !.solrXmlConfigMapName = "providedCM"]

ReconcileGeneratedConfigMap(s) ==
    LET configMap == GenerateConfigMap(s.instance)
        found == s.res["configMap"]
        t == Generated(s, "configMap", configMap)
        g == Logged(t, "get", "ConfigMap", "configMap", found.present, {})
    IN  IF Fails(s) THEN Return(Logged(t, "get", "ConfigMap", "configMap", FALSE, {}), "api")
        ELSE IF ~found.present
        THEN LET c == [Logged(g, "create", "ConfigMap", "configMap", FALSE, {})
                          EXCEPT !.solrXmlMd5 = Md5(configMap.solrXml)]
             IN  IF Fails(g) THEN Return(c, "api")
                 ELSE [c EXCEPT !.res["configMap"] = Owned(configMap)]
        ELSE IF CopyFields(configMap, found)
        THEN LET u == [Logged(g, "update", "ConfigMap", "configMap", TRUE, {})
                          EXCEPT !.solrXmlMd5 = Md5(configMap.solrXml)]
             IN  IF Fails(g) THEN Return(u, "api")
                 ELSE [u EXCEPT !.res["configMap"].spec = configMap]
        ELSE g

ReconcileConfigMap(s) ==
    IF s.done THEN s ELSE
    IF s.instance.spec.providedConfigMap
    THEN ReconcileProvidedConfigMap(s)
    ELSE ReconcileGeneratedConfigMap(s)

----------------------------------------------------------------------------
\* The TLS certificate coordinator, lines 830-984

\* util.GenerateCertificate: the create-time fields of the desired Certificate
GenerateCertificate(instance) == [cfg |-> instance.spec.certCfg, issuing |-> FALSE]

\* util.CopyCreateCertificateFields: whether a create-time field differs
CopyCreateCertificateFields(cert, foundCert) == foundCert.spec.cfg # cert.cfg

\* isCertificateReady going by the Certificate's Issuing condition
isCertificateReady_ByCondition(s, foundCert) ==
    LET exists == ~foundCert.spec.issuing
    IN  [Logged(s, "get", "Secret", "tlsSecret", exists, {}) EXCEPT !.foundTLSSecret = exists]

\* isCertificateReady, lines 920-945: the lookup of the Certificate's backing
\* secret; any lookup error leaves no secret, and the conditions are only logged
isCertificateReady(s, foundCert) ==
    LET secret == s.res["tlsSecret"]
        exists == ~Fails(s) /\ secret.present
    IN  [Logged(s, "get", "Secret", "tlsSecret", exists, {}) EXCEPT !.foundTLSSecret = exists]

\* the coordinator's result: (tlsReady, err)
TlsResult(s, ready, err) == [s EXCEPT !.tlsReady = ready, !.tlsErr = err]

\* afterCertificateReady updating the Certificate before it deletes the secret
afterCertificateReady_UpdateFirst(s, cert) ==
    IF CopyCreateCertificateFields(cert, s.res["cert"])
    THEN LET u == Logged(s, "update", "Certificate", "cert", TRUE, {}) IN
         IF Fails(s) THEN TlsResult(u, FALSE, "api")
         ELSE LET updated == [u EXCEPT !.res["cert"].spec.cfg = cert.cfg]
                  d == Logged(updated, "delete", "Secret", "tlsSecret", TRUE, {})
              IN  IF Fails(updated) THEN TlsResult(d, FALSE, "api")
                  ELSE TlsResult([d EXCEPT !.res["tlsSecret"].present = FALSE,
                                           !.res["tlsSecret"].owner = FALSE], FALSE, NoError)
    ELSE IF ~s.res["tlsSecret"].owner
    THEN LET u == Logged(s, "update", "Secret", "tlsSecret", TRUE, {}) IN
         IF Fails(s) THEN TlsResult(u, FALSE, "api")
         ELSE TlsResult([u EXCEPT !.res["tlsSecret"].owner = TRUE,
                                  !.res["tlsSecret"].spec.resourceVersion = @ + 1],
                        TRUE, NoError)
    ELSE TlsResult(s, TRUE, NoError)

\* afterCertificateReady, lines 948-984
afterCertificateReady(s, cert) ==
    IF CopyCreateCertificateFields(cert, s.res["cert"])
    THEN LET d == Logged(s, "delete", "Secret", "tlsSecret", TRUE, {}) IN
         IF Fails(s) THEN TlsResult(d, FALSE, "api")
         ELSE LET deleted == [d EXCEPT !.res["tlsSecret"].present = FALSE,
                                       !.res["tlsSecret"].owner = FALSE]
                  u == Logged(deleted, "update", "Certificate", "cert", TRUE, {})
              IN  IF Fails(deleted) THEN TlsResult(u, FALSE, "api")
                  ELSE TlsResult([u EXCEPT !.res["cert"].spec.cfg = cert.cfg], FALSE, NoError)
    ELSE IF ~s.res["tlsSecret"].owner
    THEN LET u == Logged(s, "update", "Secret", "tlsSecret", TRUE, {}) IN
         IF Fails(s) THEN TlsResult(u, FALSE, "api")
         ELSE TlsResult([u EXCEPT !.res["tlsSecret"].owner = TRUE,
                                  !.res["tlsSecret"].spec.resourceVersion = @ + 1],
                        TRUE, NoError)
    ELSE TlsResult(s, TRUE, NoError)

\* lines 851-864: the keystore password secret; creates it if it is absent
ReconcileKeystoreSecret(s) ==
    LET found == s.res["keystore"]
        g == Logged(s, "get", "Secret", "keystore", ~Fails(s) /\ found.present, {})
    IN  IF Fails(s) THEN TlsResult(g, FALSE, "api")
        ELSE IF found.present THEN g
        ELSE IF Fails(g)
        THEN TlsResult(Logged(g, "create", "Secret", "keystore", FALSE, {}), FALSE, "api")
        ELSE [Logged(g, "create", "Secret", "keystore", FALSE, {})
                 EXCEPT !.res["keystore"] = Owned(GenerateSimple("keystore"))]

\* the self-signed issuer created without a look whether it exists
ReconcileSelfSignedIssuer_NoLookup(s) ==
    IF s.tlsErr # NoError THEN s ELSE
    IF s.instance.spec.issuerRef THEN s
    ELSE IF Fails(s)
    THEN TlsResult(Logged(s, "create", "Issuer", "issuer", FALSE, {}), FALSE, "api")
    ELSE [Logged(s, "create", "Issuer", "issuer", FALSE, {})
             EXCEPT !.res["issuer"] = Owned(GenerateSimple("issuer"))]

\* lines 866-885: the self-signed issuer <cluster>-selfsigned-issuer
ReconcileSelfSignedIssuer(s) ==
    IF s.tlsErr # NoError THEN s ELSE
    IF s.instance.spec.issuerRef THEN s
    ELSE LET found == s.res["issuer"]
             g == Logged(s, "get", "Issuer", "issuer", ~Fails(s) /\ found.present, {})
         IN  IF Fails(s) THEN TlsResult(g, FALSE, "api")
             ELSE IF found.present THEN g
             ELSE IF Fails(g)
             THEN TlsResult(Logged(g, "create", "Issuer", "issuer", FALSE, {}), FALSE, "api")
             ELSE [Logged(g, "create", "Issuer", "issuer", FALSE, {})
                      EXCEPT !.res["issuer"] = Owned(GenerateSimple("issuer"))]

\* lines 887-917: the Certificate
ReconcileCertificate(s) ==
    IF s.tlsErr # NoError THEN s ELSE
    LET cert == GenerateCertificate(s.instance)
        found == s.res["cert"]
        g == Logged(s, "get", "Certificate", "cert", ~Fails(s) /\ found.present, {})
    IN  IF Fails(s) THEN TlsResult(g, FALSE, "api")
        ELSE IF ~found.present
        THEN IF Fails(g)
             THEN TlsResult(Logged(g, "create", "Certificate", "cert", FALSE, {}), FALSE, "api")
             ELSE TlsResult([Logged(g, "create", "Certificate", "cert", FALSE, {})
                                EXCEPT !.res["cert"] = Owned(cert)], FALSE, NoError)
        ELSE LET r == isCertificateReady(g, found) IN
             IF r.foundTLSSecret THEN afterCertificateReady(r, cert)
             ELSE TlsResult(r, FALSE, NoError)

\* reconcileAutoCreateTLS, lines 831-918
reconcileAutoCreateTLS(s) ==
    LET foundCert == s.res["cert"]
        g == Logged(s, "get", "Certificate", "cert", ~Fails(s) /\ foundCert.present, {})
        r == isCertificateReady(g, foundCert)
        \* (a step of the coordinator runs only while no earlier step failed)
        full(t) == ReconcileCertificate(ReconcileSelfSignedIssuer(ReconcileKeystoreSecret(t)))
    IN  IF Fails(s) \/ ~foundCert.present THEN full(g)
        ELSE IF r.foundTLSSecret THEN afterCertificateReady(r, GenerateCertificate(s.instance))
        ELSE full(r)

----------------------------------------------------------------------------
\* setUrlSchemeClusterProperty, lines 986-1062: (updated, err)

\* a call to the coordination ensemble, logged
LoggedZk(s, op, ok) ==
    [s EXCEPT !.calls = Append(@, [op |-> op, kind |-> "ZooKeeper", name |-> "clusterprops",
                                   ok |-> ok, found |-> FALSE, items |-> {}])]

UrlSchemeResult(s, updated, err) == [s EXCEPT !.urlUpdated = updated, !.urlErr = err]

setUrlSchemeClusterProperty(s) ==
    IF s.zkStore.up = "nohost" THEN UrlSchemeResult(LoggedZk(s, "connect", FALSE), FALSE, NoError)
    ELSE IF s.zkStore.up = "down" THEN UrlSchemeResult(LoggedZk(s, "connect", FALSE), FALSE, "zk")
    ELSE LET c == LoggedZk(s, "connect", TRUE)
             g == LoggedZk(c, "zkget", s.zkStore.node # "absent")
         IN  IF s.zkStore.node # "absent"
             THEN IF s.zkStore.node # "https"
                  THEN \* the version-checked Set; its error is only logged
                       IF s.raced
                       THEN UrlSchemeResult(LoggedZk(g, "zkset", FALSE), TRUE, NoError)
                       ELSE UrlSchemeResult([LoggedZk(g, "zkset", TRUE)
                                                EXCEPT !.zkStore.node = "https"], TRUE, NoError)
                  ELSE UrlSchemeResult(g, TRUE, NoError)
             ELSE LET chrooted ==
                          IF s.newStatus.zk.chroot # <<>> /\ ~s.zkStore.chroot
                          THEN [LoggedZk(g, "zkcreate-chroot", TRUE) EXCEPT !.zkStore.chroot = TRUE]
                          ELSE g
                  IN  IF s.raced
                      THEN UrlSchemeResult([LoggedZk(chrooted, "zkcreate", FALSE)
                                               EXCEPT !.zkStore.node = "other"], FALSE, "zk")
                      ELSE UrlSchemeResult([LoggedZk(chrooted, "zkcreate", TRUE)
                                               EXCEPT !.zkStore.node = "https"], TRUE, NoError)

----------------------------------------------------------------------------
\* Reconcile, lines 253-313: the TLS steps of the pass

\* lines 259-272: an error of the coordinator ends the pass, and so does a
\* certificate that is not ready, with a requeue after the wait
WaitUnlessReady(t, wait) ==
    IF t.tlsErr # NoError THEN Return(t, t.tlsErr)
    ELSE IF ~t.tlsReady THEN Return([t EXCEPT !.requeueAfter = wait], NoError)
    ELSE t

\* the same with the one delay of 30 s, whoever issues the certificate
ReconcileTLSCertificate_OneWait(s) ==
    IF s.done \/ s.instance.spec.tls # "auto" THEN s
    ELSE WaitUnlessReady([reconcileAutoCreateTLS(s) EXCEPT !.tlsChecked = TRUE], IssuerWait)

\* lines 256-273: the coordinator's result decides whether the pass goes on
ReconcileTLSCertificate(s) ==
    IF s.done \/ s.instance.spec.tls # "auto" THEN s
    ELSE WaitUnlessReady([reconcileAutoCreateTLS(s) EXCEPT !.tlsChecked = TRUE],
                         IF s.instance.spec.issuerRef THEN IssuerWait ELSE SelfSignedWait)

\* lines 275-292: the TLS secret's resource version and keystore key
LookupTLSSecret(s) ==
    IF s.done THEN s ELSE
    LET found == s.res["tlsSecret"]
        exists == ~Fails(s) /\ found.present
        g == Logged(s, "get", "Secret", "tlsSecret", exists, {})
    IN  IF Fails(s) THEN Return(g, "api")
        ELSE IF ~found.present THEN Return(g, "notfound")
        ELSE [g EXCEPT !.instance.spec.tlsSecretVersion =
                           IF s.instance.spec.restartOnTLSSecretUpdate
                           THEN found.spec.resourceVersion ELSE @,
                       !.needsPkcs12InitContainer = ~found.spec.hasPkcs12]

\* the connection string of the operator's own tests, never connected to
TestZkConnectionString == <<"host", ":", "7271", "/">>

\* lines 298-306: what the pass does with the result (updated, err)
WaitUnlessUpdated(u) ==
    IF ~u.urlUpdated /\ u.urlErr = NoError
    THEN Return([u EXCEPT !.requeueAfter = ZkWait], NoError)
    ELSE IF u.urlErr # NoError THEN Return(u, u.urlErr)
    ELSE [u EXCEPT !.newStatus.urlSchemeClusterProperty = TRUE]

\* lines 294-307: push urlScheme=https to the ensemble once
ReconcileUrlScheme(s) ==
    IF s.done THEN s ELSE
    LET t == [s EXCEPT !.newStatus.urlSchemeClusterProperty =
                           s.instance.status.urlSchemeClusterProperty]
        conn == ZkConnectionString(t.newStatus)
    IN  IF ~t.newStatus.urlSchemeClusterProperty /\ Contains(conn, ":")
           /\ conn # TestZkConnectionString
        THEN WaitUnlessUpdated(setUrlSchemeClusterProperty(t))
        ELSE t

ReconcileTLS(s) ==
    IF s.done THEN s ELSE
    IF s.instance.spec.tls = "none" THEN s
    ELSE ReconcileUrlScheme(LookupTLSSecret(ReconcileTLSCertificate(s)))

\* the StatefulSet blocked whatever the connection string is
BlockWithoutZk_Always(s) ==
    IF s.done THEN s ELSE [s EXCEPT !.blockReconciliationOfStatefulSet = TRUE]

\* lines 310-313
BlockWithoutZk(s) ==
    IF s.done THEN s ELSE
    IF ~Contains(ZkConnectionString(s.newStatus), ":")
    THEN [s EXCEPT !.blockReconciliationOfStatefulSet = TRUE]
    ELSE s

----------------------------------------------------------------------------
\* Reconcile, lines 315-359: the StatefulSet

\* util.GenerateStatefulSet: a pure function of the instance, the new status,
\* the host aliases, the ConfigMap's name, the solr.xml hash and the
\* init-container flag
GenerateStatefulSet(instance, newStatus, hostNameIpMap, configMapName, solrXmlMd5, needsInit) ==
    [replicas |-> instance.spec.replicas,
     template |-> [zk |-> ZkConnectionString(newStatus), hosts |-> hostNameIpMap,
                   configMap |-> configMapName, solrXmlMd5 |-> solrXmlMd5,
                   pkcs12Init |-> needsInit,
                   tlsSecretVersion |-> instance.spec.tlsSecretVersion,
                   tag |-> instance.spec.tag]]

\* lines 319-346: the StatefulSet is created or updated
SyncStatefulSet(s) ==
    LET statefulSet == GenerateStatefulSet(s.instance, s.newStatus, s.hostNameIpMap,
                           s.solrXmlConfigMapName, s.solrXmlMd5, s.needsPkcs12InitContainer)
        found == s.res["statefulSet"]
        t == Generated(s, "statefulSet", statefulSet)
        g == Logged(t, "get", "StatefulSet", "statefulSet", found.present, {})
    IN  IF Fails(s) THEN Return(Logged(t, "get", "StatefulSet", "statefulSet", FALSE, {}), "api")
        ELSE IF ~found.present
        THEN LET c == [Logged(g, "create", "StatefulSet", "statefulSet", FALSE, {})
                          EXCEPT !.pvcLabelSelector = TRUE]
             IN  IF Fails(g) THEN Return(c, "api")
                 ELSE [c EXCEPT !.res["statefulSet"] = Owned(statefulSet)]
        ELSE LET f == [g EXCEPT !.statefulSetStatus = s.stsStatus,
                                !.pvcLabelSelector = TRUE]
             IN  IF CopyFields(statefulSet, found)
                 THEN IF Fails(f)
                      THEN Return(Logged(f, "update", "StatefulSet", "statefulSet", TRUE, {}), "api")
                      ELSE [Logged(f, "update", "StatefulSet", "statefulSet", TRUE, {})
                               EXCEPT !.res["statefulSet"].spec = statefulSet]
                 ELSE f

\* lines 347-359: a blocked pass only looks the StatefulSet up
LookupStatefulSet(s) ==
    LET found == s.res["statefulSet"]
        g == Logged(s, "get", "StatefulSet", "statefulSet", ~Fails(s) /\ found.present, {})
    IN  IF Fails(s) THEN Return(g, "api")
        ELSE IF found.present
        THEN [g EXCEPT !.statefulSetStatus = s.stsStatus, !.pvcLabelSelector = TRUE]
        ELSE g

ReconcileStatefulSet(s) ==
    IF s.done THEN s ELSE
    IF ~s.blockReconciliationOfStatefulSet THEN SyncStatefulSet(s) ELSE LookupStatefulSet(s)

----------------------------------------------------------------------------
\* The storage lifecycle, lines 649-755

\* util.IsPVCOrphan: the claim's ordinal is not below the replica count
IsPVCOrphan(ordinal, replicas) == ordinal >= replicas

\* deletePVC, lines 743-755: the error of the delete is only logged
deletePVC(s, ordinal) ==
    IF Fails(s) THEN Logged(s, "delete", "PersistentVolumeClaim", ToString(ordinal), TRUE, {ordinal})
    ELSE [Logged(s, "delete", "PersistentVolumeClaim", ToString(ordinal), TRUE, {ordinal})
             EXCEPT !.pvcs = @ \ {ordinal}]

\* the claims of a list deleted one after the other until a delete fails
RECURSIVE deletePVCs_UntilFailure(_, _)
deletePVCs_UntilFailure(s, items) ==
    IF items = {} \/ (Len(s.calls) > 0 /\ s.calls[Len(s.calls)].op = "delete"
                                      /\ ~s.calls[Len(s.calls)].ok)
    THEN s
    ELSE LET first == CHOOSE i \in items : \A j \in items : i <= j
         IN  deletePVCs_UntilFailure(deletePVC(s, first), items \ {first})

\* the claims of a list, deleted one after the other in the order of the list
RECURSIVE deletePVCs(_, _)
deletePVCs(s, items) ==
    IF items = {} THEN s
    ELSE LET first == CHOOSE i \in items : \A j \in items : i <= j
         IN  deletePVCs(deletePVC(s, first), items \ {first})

\* the result of a storage step: err
StorageResult(s, err) == [s EXCEPT !.storageErr = err]

\* getPVCList, lines 719-730
getPVCList(s) == Logged(s, "list", "PersistentVolumeClaim", "selector", ~Fails(s),
                        IF Fails(s) THEN {} ELSE s.pvcs)

\* cleanupOrphanPVCs without the orphan test: every claim listed is deleted
cleanupOrphanPVCs_EveryClaim(s) ==
    IF s.instance.status.readyReplicas = s.instance.status.replicas
    THEN IF Fails(s) THEN StorageResult(getPVCList(s), "api")
         ELSE IF Cardinality(s.pvcs) > s.instance.spec.replicas
         THEN deletePVCs(getPVCList(s), s.pvcs)
         ELSE getPVCList(s)
    ELSE s

\* cleanupOrphanPVCs, lines 700-717
cleanupOrphanPVCs(s) ==
    IF s.instance.status.readyReplicas = s.instance.status.replicas
    THEN IF Fails(s) THEN StorageResult(getPVCList(s), "api")
         ELSE IF Cardinality(s.pvcs) > s.instance.spec.replicas
         THEN deletePVCs(getPVCList(s),
                         {i \in s.pvcs : IsPVCOrphan(i, s.instance.spec.replicas)})
         ELSE getPVCList(s)
    ELSE s

\* cleanUpAllPVCs, lines 732-741
cleanUpAllPVCs(s) ==
    IF Fails(s) THEN StorageResult(getPVCList(s), "api")
    ELSE deletePVCs(getPVCList(s), s.pvcs)

\* r.Update(cloud) with the finalizer set or removed, lines 658-661, 675-678, 683-686
UpdateFinalizer(s, present) ==
    LET changed == [s.instance EXCEPT !.finalizer = present]
        u == [Logged(s, "update", "SolrCloud", "finalizer", present, {})
                 EXCEPT !.instance = changed]
    IN  IF Fails(s) THEN StorageResult(u, "api")
        ELSE [u EXCEPT !.cloud = Stored(s.cloud, changed)]

\* reconcileStorageFinalizer removing the finalizer of an object that is being
\* deleted before it deletes the claims
reconcileStorageFinalizer_FinalizerFirst(s) ==
    IF s.instance.spec.storageDelete
    THEN IF ~s.instance.deleting
         THEN LET a == IF ~s.instance.finalizer THEN UpdateFinalizer(s, TRUE) ELSE s
              IN  IF a.storageErr # NoError THEN a ELSE cleanupOrphanPVCs(a)
         ELSE IF s.instance.finalizer
         THEN LET u == UpdateFinalizer(s, FALSE)
              IN  IF u.storageErr # NoError THEN u ELSE cleanUpAllPVCs(u)
         ELSE s
    ELSE IF s.instance.finalizer THEN UpdateFinalizer(s, FALSE)
    ELSE s

\* reconcileStorageFinalizer leaving the finalizer on an object whose reclaim
\* policy is delete no longer
reconcileStorageFinalizer_KeepsFinalizer(s) ==
    IF s.instance.spec.storageDelete
    THEN IF ~s.instance.deleting
         THEN LET a == IF ~s.instance.finalizer THEN UpdateFinalizer(s, TRUE) ELSE s
              IN  IF a.storageErr # NoError THEN a ELSE cleanupOrphanPVCs(a)
         ELSE IF s.instance.finalizer
         THEN LET c == cleanUpAllPVCs(s)
              IN  IF c.storageErr # NoError THEN c ELSE UpdateFinalizer(c, FALSE)
         ELSE s
    ELSE s

\* reconcileStorageFinalizer adding the finalizer whether the object is being
\* deleted or not
reconcileStorageFinalizer_IgnoresDeletion(s) ==
    IF s.instance.spec.storageDelete
    THEN IF s.instance.deleting /\ s.instance.finalizer
         THEN LET c == cleanUpAllPVCs(s)
              IN  IF c.storageErr # NoError THEN c ELSE UpdateFinalizer(c, FALSE)
         ELSE LET a == IF ~s.instance.finalizer THEN UpdateFinalizer(s, TRUE) ELSE s
              IN  IF a.storageErr # NoError THEN a ELSE cleanupOrphanPVCs(a)
    ELSE IF s.instance.finalizer THEN UpdateFinalizer(s, FALSE)
    ELSE s

\* reconcileStorageFinalizer deleting the claims of an object that is being
\* deleted whatever its reclaim policy is
reconcileStorageFinalizer_DeletesWithoutPolicy(s) ==
    IF ~s.instance.deleting
    THEN IF s.instance.spec.storageDelete
         THEN LET a == IF ~s.instance.finalizer THEN UpdateFinalizer(s, TRUE) ELSE s
              IN  IF a.storageErr # NoError THEN a ELSE cleanupOrphanPVCs(a)
         ELSE IF s.instance.finalizer THEN UpdateFinalizer(s, FALSE)
         ELSE s
    ELSE IF s.instance.finalizer
    THEN LET c == cleanUpAllPVCs(s)
         IN  IF c.storageErr # NoError THEN c ELSE UpdateFinalizer(c, FALSE)
    ELSE s

\* reconcileStorageFinalizer, lines 649-689
reconcileStorageFinalizer(s) ==
    IF s.instance.spec.storageDelete
    THEN IF ~s.instance.deleting
         THEN LET a == IF ~s.instance.finalizer THEN UpdateFinalizer(s, TRUE) ELSE s
              IN  IF a.storageErr # NoError THEN a ELSE cleanupOrphanPVCs(a)
         ELSE IF s.instance.finalizer
         THEN LET c == cleanUpAllPVCs(s)
              IN  IF c.storageErr # NoError THEN c ELSE UpdateFinalizer(c, FALSE)
         ELSE s
    ELSE IF s.instance.finalizer THEN UpdateFinalizer(s, FALSE)
    ELSE s

\* lines 364-366: an error of the storage step is not returned
RequeueOnStorageError(f) ==
    IF f.storageErr # NoError
    THEN Return([f EXCEPT !.requeue = FALSE, !.requeueAfter = FinalizerWait], NoError)
    ELSE f

\* the step run whether the pass has a claim selector or not
ReconcileStorage_WithoutSelector(s) ==
    IF s.done THEN s ELSE RequeueOnStorageError(reconcileStorageFinalizer(s))

\* lines 361-367: the step runs only with a claim selector, and its error
\* ends the pass with a requeue and no error
ReconcileStorage(s) ==
    IF s.done THEN s ELSE
    IF s.pvcLabelSelector THEN RequeueOnStorageError(reconcileStorageFinalizer(s)) ELSE s

----------------------------------------------------------------------------
\* reconcileCloudStatus, lines 445-565

\* the elements of a set of numbers in ascending order (sort.Strings of the
\* pod names: the names differ only in their ordinal)
RECURSIVE Sorted(_)
Sorted(set) ==
    IF set = {} THEN <<>>
    ELSE LET least == CHOOSE i \in set : \A j \in set : i <= j
         IN  <<least>> \o Sorted(set \ {least})

\* every order in which a list call may return the elements of a set
RECURSIVE Orders(_)
Orders(set) ==
    IF set = {} THEN {<<>>}
    ELSE UNION {{<<i>> \o rest : rest \in Orders(set \ {i})} : i \in set}

\* lines 473-494: the status of one node
NodeStatus(instance, pod, name, updateRevision) ==
    [name |-> name,
     version |-> IF pod.hasStatus THEN pod.version ELSE "",
     ready |-> pod.ready,
     specUpToDate |-> pod.revision = updateRevision]

\* the same with containerNotStarted starting as true: a ready pod counts as
\* not started
ContainerNotStarted_ReadyToo(pod) ==
    IF ~pod.ready THEN (IF pod.hasStatus THEN ~pod.started ELSE TRUE) ELSE TRUE

\* lines 517-528: whether the solr container of a pod has not started
ContainerNotStarted(pod) ==
    IF ~pod.ready THEN (IF pod.hasStatus THEN ~pod.started ELSE TRUE) ELSE FALSE

\* the aggregation taking only a ready pod for one whose container has started
reconcileCloudStatus_ReadyIsStarted(s) ==
    IF s.done THEN s ELSE
    IF Fails(s) THEN Return(Logged(s, "list", "Pod", "selector", FALSE, {}), "api")
    ELSE
    LET listed == s.order
        instance == s.instance
        updateRevision == s.statefulSetStatus.updateRevision
        node(i) == NodeStatus(instance, s.pods[i], i, updateRevision)
        otherVersion(i) == s.pods[i].hasStatus /\ s.pods[i].version # instance.spec.tag
        otherVersions == SelectSeq(listed, otherVersion)
        upToDate(i) == node(i).specUpToDate
        outOfDateStarted(i) == ~node(i).specUpToDate /\ s.pods[i].ready
        outOfDateNotStarted(i) == ~node(i).specUpToDate /\ ContainerNotStarted(s.pods[i])
        names == DOMAIN s.pods
        sortedNames == Sorted(names)
        backupRestoreReadyPods ==
            IF instance.spec.backupRestore
            THEN Cardinality({i \in names : s.pods[i].backupVolume}) ELSE 0
    IN  [Logged(s, "list", "Pod", "selector", TRUE, names) EXCEPT
            !.newStatus.replicas = s.statefulSetStatus.replicas,
            !.newStatus.upToDateNodes = Cardinality({i \in names : upToDate(i)}),
            !.newStatus.readyReplicas = Cardinality({i \in names : s.pods[i].ready}),
            !.newStatus.solrNodes = [k \in 1..Len(sortedNames) |-> node(sortedNames[k])],
            !.newStatus.backupRestoreReady =
                backupRestoreReadyPods = instance.spec.replicas /\ backupRestoreReadyPods > 0,
            !.newStatus.targetVersion =
                IF Len(otherVersions) > 0 THEN instance.spec.tag ELSE "",
            !.newStatus.version =
                IF Len(otherVersions) > 0 THEN s.pods[otherVersions[1]].version
                ELSE instance.spec.tag,
            !.newStatus.internalCommonAddress = <<"http://", "common">>,
            !.newStatus.externalCommonAddress =
                IF instance.spec.ingress THEN <<"http://", "external">> ELSE <<>>,
            !.outOfDatePods = SelectSeq(listed, outOfDateStarted),
            !.outOfDatePodsNotStarted = SelectSeq(listed, outOfDateNotStarted),
            !.availableUpdatedPodCount =
                Cardinality({i \in names : upToDate(i) /\ s.pods[i].ready})]

\* the aggregation without the sort: the node statuses in the order of the list
reconcileCloudStatus_AsListed(s) ==
    IF s.done THEN s ELSE
    IF Fails(s) THEN Return(Logged(s, "list", "Pod", "selector", FALSE, {}), "api")
    ELSE
    LET listed == s.order
        instance == s.instance
        updateRevision == s.statefulSetStatus.updateRevision
        node(i) == NodeStatus(instance, s.pods[i], i, updateRevision)
        otherVersion(i) == s.pods[i].hasStatus /\ s.pods[i].version # instance.spec.tag
        otherVersions == SelectSeq(listed, otherVersion)
        upToDate(i) == node(i).specUpToDate
        outOfDateStarted(i) == ~node(i).specUpToDate /\ ~ContainerNotStarted(s.pods[i])
        outOfDateNotStarted(i) == ~node(i).specUpToDate /\ ContainerNotStarted(s.pods[i])
        names == DOMAIN s.pods
        sortedNames == Sorted(names)
        backupRestoreReadyPods ==
            IF instance.spec.backupRestore
            THEN Cardinality({i \in names : s.pods[i].backupVolume}) ELSE 0
    IN  [Logged(s, "list", "Pod", "selector", TRUE, names) EXCEPT
            !.newStatus.replicas = s.statefulSetStatus.replicas,
            !.newStatus.upToDateNodes = Cardinality({i \in names : upToDate(i)}),
            !.newStatus.readyReplicas = Cardinality({i \in names : s.pods[i].ready}),
            !.newStatus.solrNodes = [k \in 1..Len(listed) |-> node(listed[k])],
            !.newStatus.backupRestoreReady =
                backupRestoreReadyPods = instance.spec.replicas /\ backupRestoreReadyPods > 0,
            !.newStatus.targetVersion =
                IF Len(otherVersions) > 0 THEN instance.spec.tag ELSE "",
            !.newStatus.version =
                IF Len(otherVersions) > 0 THEN s.pods[otherVersions[1]].version
                ELSE instance.spec.tag,
            !.newStatus.internalCommonAddress = <<"http://", "common">>,
            !.newStatus.externalCommonAddress =
                IF instance.spec.ingress THEN <<"http://", "external">> ELSE <<>>,
            !.outOfDatePods = SelectSeq(listed, outOfDateStarted),
            !.outOfDatePodsNotStarted = SelectSeq(listed, outOfDateNotStarted),
            !.availableUpdatedPodCount =
                Cardinality({i \in names : upToDate(i) /\ s.pods[i].ready})]

reconcileCloudStatus(s) ==
    IF s.done THEN s ELSE
    IF Fails(s) THEN Return(Logged(s, "list", "Pod", "selector", FALSE, {}), "api")
    ELSE
    LET listed == s.order
        instance == s.instance
        updateRevision == s.statefulSetStatus.updateRevision
        node(i) == NodeStatus(instance, s.pods[i], i, updateRevision)
        otherVersion(i) == s.pods[i].hasStatus /\ s.pods[i].version # instance.spec.tag
        otherVersions == SelectSeq(listed, otherVersion)
        upToDate(i) == node(i).specUpToDate
        outOfDateStarted(i) == ~node(i).specUpToDate /\ ~ContainerNotStarted(s.pods[i])
        outOfDateNotStarted(i) == ~node(i).specUpToDate /\ ContainerNotStarted(s.pods[i])
        names == DOMAIN s.pods
        sortedNames == Sorted(names)
        backupRestoreReadyPods ==
            IF instance.spec.backupRestore
            THEN Cardinality({i \in names : s.pods[i].backupVolume}) ELSE 0
    IN  [Logged(s, "list", "Pod", "selector", TRUE, names) EXCEPT
            !.newStatus.replicas = s.statefulSetStatus.replicas,
            !.newStatus.upToDateNodes = Cardinality({i \in names : upToDate(i)}),
            !.newStatus.readyReplicas = Cardinality({i \in names : s.pods[i].ready}),
            !.newStatus.solrNodes = [k \in 1..Len(sortedNames) |-> node(sortedNames[k])],
            !.newStatus.backupRestoreReady =
                backupRestoreReadyPods = instance.spec.replicas /\ backupRestoreReadyPods > 0,
            !.newStatus.targetVersion =
                IF Len(otherVersions) > 0 THEN instance.spec.tag ELSE "",
            !.newStatus.version =
                IF Len(otherVersions) > 0 THEN s.pods[otherVersions[1]].version
                ELSE instance.spec.tag,
            !.newStatus.internalCommonAddress = <<"http://", "common">>,
            !.newStatus.externalCommonAddress =
                IF instance.spec.ingress THEN <<"http://", "external">> ELSE <<>>,
            !.outOfDatePods = SelectSeq(listed, outOfDateStarted),
            !.outOfDatePodsNotStarted = SelectSeq(listed, outOfDateNotStarted),
            !.availableUpdatedPodCount =
                Cardinality({i \in names : upToDate(i) /\ s.pods[i].ready})]

----------------------------------------------------------------------------
\* Reconcile, lines 376-406: the managed update of out-of-date pods

\* the pod of the name as it is when the delete arrives: a pod that was
\* replaced since the list is another pod, with another UID
Arrived(s, i) ==
    IF i \in s.replaced
    THEN [Logged(s, "delete", "Pod", ToString(i), FALSE, {i})
             EXCEPT !.pods[i] = Replacement(@, s.res["statefulSet"].spec.template)]
    ELSE Logged(s, "delete", "Pod", ToString(i), TRUE, {i})

\* r.Delete of a pod without the precondition: the pod of the name is deleted
DeletePod_NoPrecondition(s, i) ==
    IF Fails(s) THEN [Arrived(s, i) EXCEPT !.deleteErr = "api"]
    ELSE [Arrived(s, i) EXCEPT !.deleteErr = NoError,
                               !.pods = [j \in DOMAIN @ \ {i} |-> @[j]]]

\* r.Delete of a pod with the UID read earlier as a precondition (lines 393-398):
\* a pod replaced since the list carries another UID and is left alone; err is
\* the result
DeletePod(s, i) ==
    IF Fails(s) THEN [Arrived(s, i) EXCEPT !.deleteErr = "api"]
    ELSE IF i \in s.replaced
    THEN [Arrived(s, i) EXCEPT !.deleteErr = "conflict", !.calls[Len(s.calls) + 1].ok = FALSE]
    ELSE [Arrived(s, i) EXCEPT !.deleteErr = NoError,
                               !.pods = [j \in DOMAIN @ \ {i} |-> @[j]]]

RECURSIVE DeletePods(_, _)
DeletePods(s, podsToUpdate) ==
    IF Len(podsToUpdate) = 0 THEN s
    ELSE DeletePods(DeletePod(s, Head(podsToUpdate)), Tail(podsToUpdate))

\* the managed update leaving every out-of-date pod to the availability policy
ManagedUpdate_PolicyDecides(s) ==
    IF s.done THEN s ELSE
    IF s.instance.spec.managedUpdate
       /\ Len(s.outOfDatePods) + Len(s.outOfDatePodsNotStarted) > 0
    THEN LET additional(i) == i \in s.policy.pods
             t == [s EXCEPT !.additionalPodsToUpdate = SelectSeq(s.outOfDatePods, additional)]
             podsToUpdate == SelectSeq(t.outOfDatePodsNotStarted \o t.outOfDatePods, additional)
             d == DeletePods(t, podsToUpdate)
         IN  IF d.deleteErr # NoError \/ s.policy.retryLater
             THEN IF d.requeueAfter <= 0 \/ d.requeueAfter > UpdateWait
                  THEN [d EXCEPT !.requeueAfter = UpdateWait]
                  ELSE d
             ELSE d
    ELSE s

\* the managed update run whatever the update strategy is
ManagedUpdate_AnyStrategy(s) ==
    IF s.done THEN s ELSE
    IF Len(s.outOfDatePods) + Len(s.outOfDatePodsNotStarted) > 0
    THEN LET additional(i) == i \in s.policy.pods
             t == [s EXCEPT !.additionalPodsToUpdate = SelectSeq(s.outOfDatePods, additional)]
             podsToUpdate == t.outOfDatePodsNotStarted \o t.additionalPodsToUpdate
             d == DeletePods(t, podsToUpdate)
         IN  IF d.deleteErr # NoError \/ s.policy.retryLater
             THEN IF d.requeueAfter <= 0 \/ d.requeueAfter > UpdateWait
                  THEN [d EXCEPT !.requeueAfter = UpdateWait]
                  ELSE d
             ELSE d
    ELSE s

\* util.DeterminePodsSafeToUpdate is the availability policy: the pass takes
\* its answer (policy.pods, policy.retryLater) as it comes
ManagedUpdate(s) ==
    IF s.done THEN s ELSE
    IF s.instance.spec.managedUpdate
       /\ Len(s.outOfDatePods) + Len(s.outOfDatePodsNotStarted) > 0
    THEN LET additional(i) == i \in s.policy.pods
             t == [s EXCEPT !.additionalPodsToUpdate = SelectSeq(s.outOfDatePods, additional)]
             podsToUpdate == t.outOfDatePodsNotStarted \o t.additionalPodsToUpdate
             d == DeletePods(t, podsToUpdate)
         IN  IF d.deleteErr # NoError \/ s.policy.retryLater
             THEN IF d.requeueAfter <= 0 \/ d.requeueAfter > UpdateWait
                  THEN [d EXCEPT !.requeueAfter = UpdateWait]
                  ELSE d
             ELSE d
    ELSE s

----------------------------------------------------------------------------
\* Reconcile, lines 408-443: the Ingress and the status write-back

ReconcileIngress(s) ==
    IF s.done THEN s ELSE
    IF s.instance.spec.ingress
    THEN CreateOrUpdate(s, "Ingress", "ingress", GenerateSimple("ingress"))
    ELSE s

UpdateStatus(s) ==
    IF s.done THEN s ELSE
    IF s.instance.status # s.newStatus
    THEN LET u == Logged(s, "update", "SolrCloudStatus", "status", TRUE, {}) IN
         IF Fails(s) THEN Return(u, "api")
         ELSE Return([u EXCEPT !.cloud.status = s.newStatus,
                               !.instance.status = s.newStatus], NoError)
    ELSE Return(s, NoError)

----------------------------------------------------------------------------
\* Reconcile, lines 92-443: one pass

\* the steps of a pass in their order, lines 109-443
Steps(a) ==
    LET b == SetDefaults(a)
        c == reconcileZk(b)
        d == ReconcileCommonService(c)
        e == ReconcileNodeServices(d)
        f == ReconcileHeadlessService(e)
        g == ReconcileConfigMap(f)
        h == ReconcileTLS(g)
        i == BlockWithoutZk(h)
        j == ReconcileStatefulSet(i)
        k == ReconcileStorage(j)
        l == reconcileCloudStatus(k)
        m == ManagedUpdate(l)
        n == ReconcileIngress(m)
    IN  UpdateStatus(n)

\* a pass on these objects
PassOn(objects, fail, policy, raced, order, replaced) ==
    Steps(FetchInstance(NewPass(objects, fail, policy, raced, order, replaced)))

\* a pass on the object with another status stored by an earlier pass
PassFrom(status, fail, policy, raced, order, replaced) ==
    Steps(FetchInstance([NewPass(res, fail, policy, raced, order, replaced)
                            EXCEPT !.cloud.status = status]))

\* a pass on the objects as they are
Pass(fail, policy, raced, order, replaced) == PassOn(res, fail, policy, raced, order, replaced)

\* what is kept of a pass, until the world outside changes: the calls it
\* issued, its result, and what it read and computed
Observed(s) ==
    [odd |-> FALSE,
     calls |-> s.calls, err |-> s.err, requeue |-> s.requeue,
     requeueAfter |-> s.requeueAfter,
     tlsChecked |-> s.tlsChecked, tlsReady |-> s.tlsReady,
     instance |-> [deleting |-> cloud.deleting, finalizer |-> cloud.finalizer,
                   defaulted |-> cloud.defaulted, spec |-> cloud.spec,
                   statusReady |-> cloud.status.readyReplicas = cloud.status.replicas],
     res |-> res, stsStatus |-> stsStatus, pods |-> pods,
     desired |-> s.desired,
     status |-> cloud.status, newStatus |-> s.newStatus,
     outOfDatePods |-> s.outOfDatePods,
     outOfDatePodsNotStarted |-> s.outOfDatePodsNotStarted,
     additionalPodsToUpdate |-> s.additionalPodsToUpdate]

\* a pass that changes nothing and repeats the pass before it is a step all
\* the same: such passes are told apart as odd and even ones
Repeated(s, observed) ==
    IF /\ <<s.cloud, s.res, s.pods, s.pvcs, s.zkStore>> = <<cloud, res, pods, pvcs, zkStore>>
       /\ observed = [pass EXCEPT !.odd = FALSE]
    THEN [observed EXCEPT !.odd = ~pass.odd]
    ELSE observed

NoPass ==
    [odd |-> FALSE,
     calls |-> <<>>, err |-> NoError, requeue |-> FALSE, requeueAfter |-> 0,
     tlsChecked |-> FALSE, tlsReady |-> FALSE,
     instance |-> [deleting |-> FALSE, finalizer |-> FALSE, defaulted |-> FALSE,
                   spec |-> <<>>,
                   statusReady |-> TRUE],
     res |-> <<>>, stsStatus |-> NoStsStatus, pods |-> <<>>,
     desired |-> <<>>, status |-> NoStatus, newStatus |-> NoStatus,
     outOfDatePods |-> <<>>, outOfDatePodsNotStarted |-> <<>>,
     additionalPodsToUpdate |-> <<>>]

\* the inputs of a pass that the state leaves open
RacedChoices ==
    IF cloud.spec.tls # "none" /\ ~cloud.status.urlSchemeClusterProperty
    THEN BOOLEAN ELSE {FALSE}

\* the pods that a pass starting now finds out of date
OutOfDate == {i \in DOMAIN pods : pods[i].revision # stsStatus.updateRevision}

\* (the policy picks among the out-of-date pods that have started, the ones it
\* is asked about; only a pod that the pass may delete shows whether it was
\* replaced, and at most one pod is replaced during a pass)
PolicyChoices ==
    IF cloud.spec.managedUpdate
    THEN [pods : SUBSET {i \in OutOfDate : ~ContainerNotStarted(pods[i])},
          retryLater : BOOLEAN]
    ELSE {[pods |-> {}, retryLater |-> FALSE]}

ReplacedChoices ==
    IF cloud.spec.managedUpdate THEN {{}} \cup {{i} : i \in OutOfDate} ELSE {{}}

\* the order of the pod list shows only in the version the status reports
\* (the first other version listed) and in the order of the pods to update
OrderChoices ==
    IF (cloud.spec.managedUpdate /\ Cardinality(OutOfDate) > 1)
       \/ \E i, j \in DOMAIN pods : pods[i].version # pods[j].version
    THEN Orders(DOMAIN pods) ELSE {Sorted(DOMAIN pods)}

\* the calls of a log that are on a kind of object on which calls may fail
FaultyCalls(calls) == {f \in 1..Len(calls) : calls[f].kind \in faults}

\* any one API call of the pass may fail, if calls on its kind of object fail at
\* all (the calls up to the failing one are those of the pass without a failure)
FailChoices(policy, raced, order, replaced) ==
    FaultyCalls(Pass(0, policy, raced, order, replaced).calls)

\* what a pass leaves behind: the objects as it wrote them
Effect(s) ==
    /\ cloud' = s.cloud
    /\ res' = s.res
    /\ pods' = s.pods
    /\ pvcs' = s.pvcs
    /\ zkStore' = s.zkStore
    /\ pass' = Repeated(s, Observed(s))
    /\ UNCHANGED <<stsStatus, useZkCRD, faults>>

\* one pass of Reconcile, with or without a failing API call
ReconcilePass(failing) ==
    \E policy \in PolicyChoices, raced \in RacedChoices,
       order \in OrderChoices, replaced \in ReplacedChoices :
      \E fail \in IF failing THEN FailChoices(policy, raced, order, replaced) ELSE {0} :
        Effect(Pass(fail, policy, raced, order, replaced))

Reconcile == \E failing \in BOOLEAN : ReconcilePass(failing)

----------------------------------------------------------------------------
\* The world outside the operator

\* the user changes the desired replica count
UserScale ==
    /\ cloud.present /\ ~cloud.deleting
    /\ \E r \in 1..MaxReplicas :
         /\ r # cloud.spec.replicas
         /\ cloud' = [cloud EXCEPT !.spec.replicas = r]
    /\ pass' = NoPass
    /\ UNCHANGED <<res, stsStatus, pods, pvcs, zkStore, useZkCRD, faults>>

\* the user requests the deletion of the object: the deletion timestamp is set
UserDelete ==
    /\ cloud.present /\ ~cloud.deleting
    /\ cloud' = [cloud EXCEPT !.deleting = TRUE]
    /\ pass' = NoPass
    /\ UNCHANGED <<res, stsStatus, pods, pvcs, zkStore, useZkCRD, faults>>

\* the platform removes an object that is being deleted and has no finalizer,
\* and with it the objects it owns and their pods; the claims are not owned
GarbageCollect ==
    /\ cloud.present /\ cloud.deleting /\ ~cloud.finalizer
    /\ cloud' = [cloud EXCEPT !.present = FALSE]
    /\ res' = [k \in ResKeys |-> IF res[k].owner THEN [res[k] EXCEPT !.present = FALSE,
                                                                  !.owner = FALSE]
                                  ELSE res[k]]
    /\ pods' = <<>>
    /\ stsStatus' = NoStsStatus
    /\ pass' = NoPass
    /\ UNCHANGED <<pvcs, zkStore, useZkCRD, faults>>

\* the user changes the volume reclaim policy
UserSetReclaimPolicy ==
    /\ cloud.present /\ ~cloud.deleting
    /\ cloud' = [cloud EXCEPT !.spec.storageDelete = ~@]
    /\ pass' = NoPass
    /\ UNCHANGED <<res, stsStatus, pods, pvcs, zkStore, useZkCRD, faults>>

\* the user changes a create-time field of the certificate
UserChangeCertificate ==
    /\ cloud.present /\ ~cloud.deleting /\ cloud.spec.tls = "auto"
    /\ cloud' = [cloud EXCEPT !.spec.certCfg = 1 - @]
    /\ pass' = NoPass
    /\ UNCHANGED <<res, stsStatus, pods, pvcs, zkStore, useZkCRD, faults>>

\* the StatefulSet controller brings pods and claims to the StatefulSet's
\* replica count (it never deletes a claim) and reports its status
StatefulSetController ==
    /\ res["statefulSet"].present
    /\ LET sts == res["statefulSet"].spec
           wanted == 0..(sts.replicas - 1)
           next == [i \in wanted |-> IF i \in DOMAIN pods THEN pods[i]
                                     ELSE NewPod(sts.template, sts.template.tag)]
       IN  /\ pods' = next
           /\ pvcs' = pvcs \cup wanted
           /\ stsStatus' = [replicas |-> Cardinality(wanted),
                            readyReplicas |-> Cardinality({i \in wanted : next[i].ready}),
                            updateRevision |-> sts.template]
    /\ <<pods', pvcs', stsStatus'>> # <<pods, pvcs, stsStatus>>
    /\ pass' = NoPass
    /\ UNCHANGED <<cloud, res, zkStore, useZkCRD, faults>>

\* a pod's solr container starts and the pod becomes ready, or the container
\* stops and the pod is not ready any more; the StatefulSet's status follows
PodReadiness ==
    /\ \E i \in DOMAIN pods :
         /\ pods' = [pods EXCEPT ![i].ready = ~@, ![i].started = ~pods[i].ready]
         /\ stsStatus' = [stsStatus EXCEPT !.readyReplicas =
                              Cardinality({j \in DOMAIN pods : pods'[j].ready})]
    /\ pass' = NoPass
    /\ UNCHANGED <<cloud, res, pvcs, zkStore, useZkCRD, faults>>

\* the issuing system issues the certificate: the backing secret appears
CertManagerIssue ==
    /\ res["cert"].present /\ ~res["tlsSecret"].present
    /\ cloud.spec.issuerRef \/ res["issuer"].present
    /\ res["tlsSecret"].spec.resourceVersion + 1 < MaxSecretVersion
    /\ \E hasPkcs12 \in BOOLEAN :
         res' = [res EXCEPT !["tlsSecret"] =
                    Foreign([resourceVersion |-> @.spec.resourceVersion + 1,
                             hasPkcs12 |-> hasPkcs12])]
    /\ pass' = NoPass
    /\ UNCHANGED <<cloud, stsStatus, pods, pvcs, zkStore, useZkCRD, faults>>

\* the issuing system sets or clears the Certificate's Issuing condition
CertManagerCondition ==
    /\ res["cert"].present
    /\ res' = [res EXCEPT !["cert"].spec.issuing = ~@]
    /\ pass' = NoPass
    /\ UNCHANGED <<cloud, stsStatus, pods, pvcs, zkStore, useZkCRD, faults>>

\* the coordination ensemble's hosts become resolvable, or it goes down
ZkAvailability ==
    /\ \E up \in {"ok", "nohost", "down"} :
         /\ up # zkStore.up
         /\ zkStore' = [zkStore EXCEPT !.up = up]
    /\ pass' = NoPass
    /\ UNCHANGED <<cloud, res, stsStatus, pods, pvcs, useZkCRD, faults>>

\* somebody else writes the cluster properties node
ZkOtherWriter ==
    /\ zkStore.up = "ok" /\ zkStore.node # "other"
    /\ zkStore' = [zkStore EXCEPT !.node = "other"]
    /\ pass' = NoPass
    /\ UNCHANGED <<cloud, res, stsStatus, pods, pvcs, useZkCRD, faults>>

----------------------------------------------------------------------------
\* Initial states: the user has created the object and nothing else exists

\* an externally supplied connection string
ExternalZk == [connectionInfo |-> TRUE, provided |-> FALSE, internal |-> <<"zk", ":", "2181">>,
               chroot |-> <<>>, replicas |-> 0]

\* a managed ensemble
ProvidedZk == [connectionInfo |-> FALSE, provided |-> TRUE, internal |-> <<>>,
               chroot |-> <<>>, replicas |-> 1]

\* no ensemble reference at all
NoZk == [connectionInfo |-> FALSE, provided |-> FALSE, internal |-> <<>>,
         chroot |-> <<>>, replicas |-> 0]

\* the largest replica count; no TLS, ephemeral storage, a headless Service
BaseSpec ==
    [replicas |-> MaxReplicas, zkRef |-> ExternalZk, tls |-> "none", issuerRef |-> FALSE,
     restartOnTLSSecretUpdate |-> FALSE, tlsSecretVersion |-> 0, certCfg |-> 0,
     storageDelete |-> FALSE, managedUpdate |-> FALSE, nodeServices |-> FALSE,
     headless |-> TRUE, useExternalAddress |-> FALSE, ingress |-> FALSE,
     providedConfigMap |-> FALSE, backupRestore |-> FALSE, tag |-> "8.7"]

NewCloud(spec) ==
    [present |-> TRUE, defaulted |-> FALSE, deleting |-> FALSE, finalizer |-> FALSE,
     spec |-> spec, status |-> NoStatus]

NoObjects ==
    [k \in ResKeys |->
        IF k = "tlsSecret"
        THEN [Absent EXCEPT !.spec = [resourceVersion |-> 0, hasPkcs12 |-> FALSE]]
        ELSE Absent]

\* a ConfigMap of the user's, with a solr.xml that has the port placeholder
ProvidedConfigMap ==
    Foreign([data |-> TRUE, hasSolrXml |-> TRUE, solrXml |-> GeneratedSolrXml])

InitWith(specs, zkCRD, kinds) ==
    /\ cloud \in {NewCloud(spec) : spec \in specs}
    /\ res = [NoObjects EXCEPT !["providedCM"] = ProvidedConfigMap]
    /\ stsStatus = NoStsStatus
    /\ pods = <<>>
    /\ pvcs = {}
    /\ zkStore = [up |-> "ok", node |-> "absent", chroot |-> FALSE]
    /\ useZkCRD \in zkCRD
    /\ faults = kinds
    /\ pass = NoPass

----------------------------------------------------------------------------
\* The storage lifecycle: scale-up, scale-down and deletion

\* (with the user's own ConfigMap, so that the pod template is the same in
\* every pass)
StorageSpecs ==
    {[BaseSpec EXCEPT !.replicas = r, !.storageDelete = d, !.providedConfigMap = TRUE] :
        r \in 1..MaxReplicas, d \in BOOLEAN}

\* the calls of the storage lifecycle may fail: those on the object itself
\* and those on the claims
StorageFaults == {"SolrCloud", "PersistentVolumeClaim"}

InitStorage == InitWith(StorageSpecs, {TRUE}, StorageFaults)

NextStorage ==
    \/ Reconcile
    \/ UserScale
    \/ UserDelete
    \/ GarbageCollect
    \/ StatefulSetController
    \/ PodReadiness

SpecStorage == InitStorage /\ [][NextStorage]_vars

----------------------------------------------------------------------------
\* A cluster coming up and going: the generated ConfigMap, an external or a
\* managed ensemble, an Ingress, claims kept or deleted

ClusterSpecs ==
    {[BaseSpec EXCEPT !.zkRef = zk, !.ingress = TRUE, !.useExternalAddress = TRUE,
                      !.storageDelete = d] :
        zk \in {ExternalZk, ProvidedZk}, d \in BOOLEAN}

\* the calls on the object itself, on the ensemble and on the StatefulSet may fail
ClusterFaults == {"SolrCloud", "ZookeeperCluster", "StatefulSet"}

Init == InitWith(ClusterSpecs, {TRUE}, ClusterFaults)

Next ==
    \/ Reconcile
    \/ UserSetReclaimPolicy
    \/ UserDelete
    \/ GarbageCollect
    \/ StatefulSetController

Spec == Init /\ [][Next]_vars

----------------------------------------------------------------------------
\* Claims

\* the pass just run followed a pass directly: nothing changed in between
NextPass == pass # NoPass /\ pass' # NoPass

\* the positions of a pass's log at which a call is of one of the operations
CallsOf(observed, ops) == {i \in 1..Len(observed.calls) : observed.calls[i].op \in ops}

\* the pass returned no error and asked for no requeue: it ran to its end
Completed(observed) ==
    observed.err = NoError /\ ~observed.requeue /\ observed.requeueAfter = 0

\* C1: if a pass completes without error (here even: without asking for a
\* requeue) and nothing outside the operator changes afterwards, the next
\* pass issues no create call and no update call
C1_SecondPassWritesNothing ==
    [][NextPass /\ Completed(pass) => CallsOf(pass', {"create", "update"}) = {}]_vars

\* the positions of a pass's log at which an operation on a kind of object is logged
CallsOn(observed, op, kind) ==
    {i \in 1..Len(observed.calls) :
        observed.calls[i].op = op /\ observed.calls[i].kind = kind}

\* the claims a pass tried to delete, and those it deleted
ClaimsTried(observed) ==
    UNION {observed.calls[i].items : i \in CallsOn(observed, "delete", "PersistentVolumeClaim")}

ClaimsDeleted(observed) ==
    UNION {observed.calls[i].items :
              i \in {j \in CallsOn(observed, "delete", "PersistentVolumeClaim") :
                        observed.calls[j].ok}}

\* the positions at which a pass persisted the object with the finalizer
\* removed (present = FALSE) or added (present = TRUE)
FinalizerUpdates(observed, present) ==
    {i \in CallsOn(observed, "update", "SolrCloud") :
        observed.calls[i].name = "finalizer" /\ observed.calls[i].found = present}

\* C2: a pass on an object that is not being deleted deletes (or tries to
\* delete) no claim whose ordinal is below the desired replica count the pass
\* read, whatever scale-ups and scale-downs came before
C2_NoLiveClaimDeleted ==
    pass # NoPass /\ ~pass.instance.deleting
        => \A ordinal \in ClaimsTried(pass) : ordinal >= pass.instance.spec.replicas

\* C2 witness: after a scale-down, a pass on an object that is not being
\* deleted has deleted an orphaned claim while a claim below the count remains
C2_Witness ==
    /\ pass # NoPass /\ ~pass.instance.deleting
    /\ ClaimsDeleted(pass) # {}
    /\ \E ordinal \in pvcs : ordinal < pass.instance.spec.replicas

\* C3: orphan cleanup deletes no claim in a pass during which the live
\* StatefulSet reports fewer ready replicas than replicas
C3_NoCleanupWhileNotReady ==
    pass # NoPass /\ ~pass.instance.deleting
       /\ pass.stsStatus.readyReplicas < pass.stsStatus.replicas
        => ClaimsTried(pass) = {}

\* C4: in a pass on an object that is being deleted, carries the finalizer and
\* has delete-on-reclaim storage, the finalizer is removed only after the
\* claims were listed and a delete was attempted for every claim listed, and
\* it is not removed when listing the claims failed
C4_ClaimsBeforeFinalizer ==
    pass # NoPass /\ pass.instance.deleting /\ pass.instance.finalizer
       /\ pass.instance.spec.storageDelete
        => /\ \A u \in FinalizerUpdates(pass, FALSE) :
                \E l \in CallsOn(pass, "list", "PersistentVolumeClaim") :
                    /\ l < u /\ pass.calls[l].ok
                    /\ \A ordinal \in pass.calls[l].items :
                          \E d \in CallsOn(pass, "delete", "PersistentVolumeClaim") :
                              l < d /\ d < u /\ pass.calls[d].items = {ordinal}
           /\ (\E l \in CallsOn(pass, "list", "PersistentVolumeClaim") : ~pass.calls[l].ok)
                  => FinalizerUpdates(pass, FALSE) = {}

\* C4 witness: such a pass listed two claims, tried to delete both and then
\* removed the finalizer
C4_Witness ==
    /\ pass # NoPass /\ pass.instance.deleting /\ pass.instance.finalizer
    /\ pass.instance.spec.storageDelete
    /\ Cardinality(ClaimsTried(pass)) >= 2
    /\ FinalizerUpdates(pass, FALSE) # {}
    /\ ~cloud.finalizer

\* C4 witness of the failure case: the list of claims failed in such a pass
C4_ListFailed ==
    /\ pass # NoPass /\ pass.instance.deleting /\ pass.instance.finalizer
    /\ pass.instance.spec.storageDelete
    /\ \E l \in CallsOn(pass, "list", "PersistentVolumeClaim") : ~pass.calls[l].ok

\* Deletion under fair scheduling: a cluster with delete-on-reclaim storage is
\* brought up and deleted; calls on the claims may fail; passes keep being run,
\* among them passes in which no call fails, and the platform collects an
\* object that can be collected
DeletionFaults == {"PersistentVolumeClaim"}

InitDeletion ==
    InitWith({[BaseSpec EXCEPT !.storageDelete = TRUE, !.providedConfigMap = TRUE]},
             {TRUE}, DeletionFaults)

NextDeletion ==
    \/ Reconcile
    \/ UserDelete
    \/ GarbageCollect
    \/ StatefulSetController
    \/ PodReadiness

\* (a pass is always enabled and always a step, so that weak fairness of the
\* pass without a failure is that it is run again and again)
SpecDeletion ==
    /\ InitDeletion /\ [][NextDeletion]_vars
    /\ []<><<ReconcilePass(FALSE)>>_vars /\ WF_vars(GarbageCollect)

\* C5: once deletion is requested for an object that carries the finalizer
\* (and still has delete-on-reclaim storage), passes being run fairly and API
\* calls succeeding again and again, eventually every claim is deleted and the
\* finalizer is removed
C5_DeletionCompletes ==
    (cloud.present /\ cloud.deleting /\ cloud.finalizer /\ cloud.spec.storageDelete)
        ~> (pvcs = {} /\ ~cloud.finalizer)

\* the pass found the StatefulSet or created it
StatefulSetSeen(observed) ==
    \/ \E i \in CallsOn(observed, "get", "StatefulSet") : observed.calls[i].found
    \/ \E i \in CallsOn(observed, "create", "StatefulSet") : observed.calls[i].ok

\* C6 as stated: after every pass that returns without error on an object that
\* is not being deleted, the finalizer is present iff the spec asks for
\* persistent storage with the delete reclaim policy
C6_FinalizerIffDeleteReclaim ==
    pass # NoPass /\ cloud.present /\ ~pass.instance.deleting /\ pass.err = NoError
        => (cloud.finalizer <=> cloud.spec.storageDelete)

\* C6 amended: the same, after every pass that returns without error and
\* without asking for a requeue, and that found or created the StatefulSet
C6_FinalizerIffDeleteReclaimCompleted ==
    pass # NoPass /\ cloud.present /\ ~pass.instance.deleting
       /\ Completed(pass) /\ StatefulSetSeen(pass)
        => (cloud.finalizer <=> cloud.spec.storageDelete)

\* C6 witness: such a pass has removed the finalizer, the reclaim policy
\* being delete no longer
C6_Witness ==
    /\ pass # NoPass /\ cloud.present /\ ~pass.instance.deleting
    /\ Completed(pass) /\ StatefulSetSeen(pass)
    /\ pass.instance.finalizer /\ ~cloud.finalizer /\ ~cloud.spec.storageDelete

----------------------------------------------------------------------------
\* TLS auto-create: the certificate is bootstrapped, issued, changed and
\* issued again, with a self-signed issuer or a given one; the ensemble is up

TlsSpecs ==
    {[BaseSpec EXCEPT !.tls = "auto", !.issuerRef = ref, !.providedConfigMap = TRUE,
                      !.restartOnTLSSecretUpdate = TRUE] :
        ref \in BOOLEAN}

\* the calls of the TLS coordinator may fail
TlsFaults == {"Secret", "Issuer", "Certificate"}

InitTLS == InitWith(TlsSpecs, {TRUE}, TlsFaults)

NextTLS ==
    \/ Reconcile
    \/ UserChangeCertificate
    \/ CertManagerIssue
    \/ CertManagerCondition
    \/ ZkOtherWriter

\* (a pass is always enabled and always a step, so that weak fairness of the
\* pass without a failure is that it is run again and again)
SpecTLS ==
    /\ InitTLS /\ [][NextTLS]_vars
    /\ []<><<ReconcilePass(FALSE)>>_vars /\ WF_vars(CertManagerIssue)

\* every call of the pass on the kinds of object of the TLS coordinator succeeded
TlsCallsOk(observed) ==
    \A i \in 1..Len(observed.calls) :
        observed.calls[i].kind \in TlsFaults => observed.calls[i].ok

\* the live Certificate the pass found differs in a create-time field from
\* the one generated from the spec the pass read
CertificateDrift(observed) ==
    /\ observed.res["cert"].present
    /\ CopyCreateCertificateFields(GenerateCertificate([spec |-> observed.instance.spec]),
                                   observed.res["cert"])

\* the positions at which the pass deleted, or tried to delete, the backing secret
SecretDeletes(observed) ==
    {i \in CallsOn(observed, "delete", "Secret") : observed.calls[i].name = "tlsSecret"}

\* C7: when the live Certificate's create-time fields differ from the
\* generated ones and the backing secret exists, the pass deletes the secret
\* before it updates the Certificate, never after; a failed delete leaves the
\* Certificate without update; and after a delete and an update that
\* succeeded the coordinator reports not-ready
C7_SecretDeletedBeforeCertificateUpdate ==
    pass # NoPass /\ pass.tlsChecked /\ CertificateDrift(pass)
       /\ pass.res["tlsSecret"].present
        => LET deletes == SecretDeletes(pass)
               updates == CallsOn(pass, "update", "Certificate")
           IN  /\ \A u \in updates :
                    /\ \E d \in deletes : d < u /\ pass.calls[d].ok
                    /\ \A d \in deletes : d < u
               /\ (\E d \in deletes : ~pass.calls[d].ok) => updates = {}
               /\ (\E d \in deletes, u \in updates : pass.calls[d].ok /\ pass.calls[u].ok)
                      => ~pass.tlsReady
               /\ TlsCallsOk(pass) => deletes # {} /\ updates # {}

\* C7 witness: such a pass has deleted the secret, updated the Certificate
\* and reported not-ready
C7_Witness ==
    /\ pass # NoPass /\ pass.tlsChecked /\ CertificateDrift(pass)
    /\ pass.res["tlsSecret"].present /\ ~res["tlsSecret"].present
    /\ \E d \in SecretDeletes(pass), u \in CallsOn(pass, "update", "Certificate") :
          d < u /\ pass.calls[d].ok /\ pass.calls[u].ok
    /\ ~pass.tlsReady

\* C7 witness of the failure case: the delete of the secret failed
C7_DeleteFailed ==
    /\ pass # NoPass /\ pass.tlsChecked /\ CertificateDrift(pass)
    /\ \E d \in SecretDeletes(pass) : ~pass.calls[d].ok

\* the objects with the Certificate's Issuing condition the other way round
OtherCondition(objects) ==
    IF objects["cert"].present THEN [objects EXCEPT !["cert"].spec.issuing = ~@]
    ELSE objects

\* C8: the coordinator reports ready in a pass only if the Certificate's
\* backing secret exists at the time of the pass, and its outcome is the same
\* whatever the Certificate's status conditions say
C8_ReadyOnlyBySecret ==
    [][/\ pass' # NoPass /\ pass'.tlsChecked /\ pass'.tlsReady => res["tlsSecret"].present
       /\ \A policy \in PolicyChoices, raced \in RacedChoices, order \in OrderChoices,
             replaced \in ReplacedChoices :
            \A fail \in {0} \cup FailChoices(policy, raced, order, replaced) :
               LET this == PassOn(res, fail, policy, raced, order, replaced)
                   that == PassOn(OtherCondition(res), fail, policy, raced, order, replaced)
               IN  <<this.tlsChecked, this.tlsReady, this.tlsErr>>
                       = <<that.tlsChecked, that.tlsReady, that.tlsErr>>]_vars

\* C8 witness: a pass reported ready, the secret being there, while the
\* Certificate's condition said it was still issuing
C8_Witness ==
    /\ pass # NoPass /\ pass.tlsChecked /\ pass.tlsReady
    /\ pass.res["tlsSecret"].present /\ pass.res["cert"].spec.issuing

\* what C9 promises of a pass: no error, the requeue delay of the issuer, no
\* StatefulSet create or update and no status write
WaitsForCertificate(observed) ==
    /\ observed.err = NoError
    /\ observed.requeueAfter =
           IF observed.instance.spec.issuerRef THEN IssuerWait ELSE SelfSignedWait
    /\ CallsOn(observed, "create", "StatefulSet") = {}
    /\ CallsOn(observed, "update", "StatefulSet") = {}
    /\ CallsOn(observed, "update", "SolrCloudStatus") = {}

\* C9 as stated: in any pass with TLS auto-create in which no TLS call fails
\* and the backing secret is absent, the pass returns no error, with a delay
\* of 2 s without an issuer reference and of 30 s with one, and neither
\* creates or updates the StatefulSet nor writes the status
C9_NotIssuedRequeues ==
    pass # NoPass /\ pass.instance.spec.tls = "auto" /\ TlsCallsOk(pass)
       /\ ~pass.res["tlsSecret"].present
        => WaitsForCertificate(pass)

\* C9 amended: the same of any such pass that gets as far as the TLS coordinator
C9_NotIssuedRequeuesOnceReached ==
    pass # NoPass /\ pass.instance.spec.tls = "auto" /\ TlsCallsOk(pass)
       /\ ~pass.res["tlsSecret"].present /\ pass.tlsChecked
        => WaitsForCertificate(pass)

\* C9 witness: a pass found the Certificate but not its secret, with an
\* issuer reference, and asked for a requeue after 30 s
C9_Witness ==
    /\ pass # NoPass /\ pass.instance.spec.tls = "auto" /\ TlsCallsOk(pass)
    /\ pass.tlsChecked /\ pass.res["cert"].present /\ ~pass.res["tlsSecret"].present
    /\ pass.instance.spec.issuerRef /\ pass.requeueAfter = IssuerWait

\* the positions at which the pass created the object of a key
Creates(observed, key) ==
    {i \in CallsOf(observed, {"create"}) :
        observed.calls[i].name = key /\ observed.calls[i].ok}

\* the keystore secret, the self-signed issuer and the Certificate
BootstrapKeys == {"keystore", "issuer", "cert"}

\* a pass reported TLS ready and went on to the StatefulSet
ReadyAndSynced(observed) ==
    /\ observed # NoPass /\ observed.tlsChecked /\ observed.tlsReady
    /\ CallsOn(observed, "get", "StatefulSet") # {}

\* C10: with TLS auto-create and no issuer reference, from a state without
\* keystore secret, issuer and Certificate, repeated passes create each of the
\* three exactly once (each is created, only when it is absent, and it stays);
\* and once the issuing system has created the backing secret, eventually a
\* pass reports TLS ready and goes on to the StatefulSet, unless the secret
\* has gone again before (a changed Certificate has it deleted)
C10_BootstrapOnceThenReady ==
    /\ [](~cloud.spec.issuerRef /\ pass # NoPass
            => \A key \in BootstrapKeys :
                  Creates(pass, key) # {}
                      => ~pass.res[key].present /\ Cardinality(Creates(pass, key)) = 1)
    /\ \A key \in BootstrapKeys : [](res[key].present => []res[key].present)
    /\ (~cloud.spec.issuerRef => <>(\A key \in BootstrapKeys : res[key].present))
    /\ ((~cloud.spec.issuerRef /\ res["tlsSecret"].present)
            ~> (ReadyAndSynced(pass) \/ ~res["tlsSecret"].present))

\* C10 witness: the three objects were created, the secret was issued, and a
\* pass reported TLS ready and went on to the StatefulSet
C10_Witness ==
    /\ ~cloud.spec.issuerRef
    /\ \A key \in BootstrapKeys : res[key].present /\ res[key].owner
    /\ res["tlsSecret"].present
    /\ ReadyAndSynced(pass)

----------------------------------------------------------------------------
\* The managed update: the image is changed, the pods fall out of date and are
\* deleted by the passes (managed) or left alone (any other strategy)

\* the user changes the image tag to the next version
UserUpgrade ==
    /\ cloud.present /\ ~cloud.deleting /\ cloud.spec.tag = "8.7"
    /\ cloud' = [cloud EXCEPT !.spec.tag = "8.8"]
    /\ pass' = NoPass
    /\ UNCHANGED <<res, stsStatus, pods, pvcs, zkStore, useZkCRD, faults>>

\* the solr container of a pod starts; the pod is not ready yet
ContainerStarts ==
    /\ \E i \in DOMAIN pods :
         /\ ~pods[i].started
         /\ pods' = [pods EXCEPT ![i].started = TRUE]
    /\ pass' = NoPass
    /\ UNCHANGED <<cloud, res, stsStatus, pvcs, zkStore, useZkCRD, faults>>

InitUpdate ==
    InitWith({[BaseSpec EXCEPT !.managedUpdate = managed, !.providedConfigMap = TRUE] :
                 managed \in BOOLEAN},
             {TRUE}, {"Pod"})

NextUpdate ==
    \/ Reconcile
    \/ UserUpgrade
    \/ StatefulSetController
    \/ ContainerStarts

SpecUpdate == InitUpdate /\ [][NextUpdate]_vars

\* the pods a pass asked to delete
PodsTried(observed) ==
    UNION {observed.calls[i].items : i \in CallsOn(observed, "delete", "Pod")}

\* the pods a pass found at a revision other than the update revision of the
\* StatefulSet it read
OutOfDatePods(observed) ==
    {i \in DOMAIN observed.pods :
        observed.pods[i].revision # observed.stsStatus.updateRevision}

\* those of them whose solr container had not started
NotStartedPods(observed) ==
    {i \in OutOfDatePods(observed) : ContainerNotStarted(observed.pods[i])}

\* the pass found the StatefulSet and listed the pods with the managed update on
ManagedPass(observed) ==
    /\ observed.instance.spec # <<>>
    /\ observed.instance.spec.managedUpdate
    /\ observed.res["statefulSet"].present
    /\ \E i \in CallsOn(observed, "list", "Pod") : observed.calls[i].ok

\* C11: with the managed update, a pass that lists the pods asks for the
\* deletion of every out-of-date pod whose solr container has not started,
\* also of those the availability policy does not name
C11_NotStartedPodsAreDeleted ==
    pass # NoPass /\ ManagedPass(pass) => NotStartedPods(pass) \subseteq PodsTried(pass)

\* a pass asked to delete a pod that had not started and left alone a started
\* one: the policy named no pod
C11_Witness ==
    /\ pass # NoPass /\ ManagedPass(pass)
    /\ NotStartedPods(pass) # {}
    /\ PodsTried(pass) = NotStartedPods(pass)
    /\ OutOfDatePods(pass) \ NotStartedPods(pass) # {}

\* C12: a delete of a pod takes effect only on the pod whose UID the pass read
\* when it listed the pods: a pod of the name that is gone after the pass was
\* the one listed, and a pod that replaced the one listed is still there
\* after the pass, with its own UID
C12_DeleteOnlyThePodListed ==
    \A k \in CallsOn(pass, "delete", "Pod") : \A i \in pass.calls[k].items :
        /\ i \notin DOMAIN pods => pass.calls[k].found /\ pass.calls[k].ok
        /\ ~pass.calls[k].found =>
              /\ ~pass.calls[k].ok
              /\ i \in DOMAIN pods
              /\ pods[i].uid # pass.pods[i].uid

\* a pass asked to delete a pod that had been replaced, and one that had not
C12_Witness ==
    /\ \E k \in CallsOn(pass, "delete", "Pod") : \E i \in pass.calls[k].items :
          ~pass.calls[k].found /\ i \in DOMAIN pods /\ pods[i].uid # pass.pods[i].uid
    /\ \E k \in CallsOn(pass, "delete", "Pod") : \E i \in pass.calls[k].items :
          pass.calls[k].found /\ pass.calls[k].ok /\ i \notin DOMAIN pods

\* C13: when the update strategy is not the managed one, a pass deletes no
\* pod, and asks for no deletion of one
C13_NoPodDeleteUnlessManaged ==
    pass # NoPass /\ pass.instance.spec # <<>> /\ ~pass.instance.spec.managedUpdate
        => /\ CallsOn(pass, "delete", "Pod") = {}
           /\ DOMAIN pass.pods \subseteq DOMAIN pods

\* a pass without the managed update found the StatefulSet and listed pods
\* that were out of date and had not started, and left them alone
C13_Witness ==
    /\ pass # NoPass /\ pass.instance.spec # <<>> /\ ~pass.instance.spec.managedUpdate
    /\ pass.res["statefulSet"].present
    /\ \E i \in CallsOn(pass, "list", "Pod") : pass.calls[i].ok
    /\ NotStartedPods(pass) # {}
    /\ OutOfDatePods(pass) \ NotStartedPods(pass) # {}
    /\ DOMAIN pods = DOMAIN pass.pods

\* the pass went through to the status write-back and returned no error
ReachedEnd(observed) ==
    /\ observed.err = NoError
    /\ \E i \in CallsOn(observed, "list", "Pod") : observed.calls[i].ok

\* C14: with the managed update and a pod out of date, a pass in which the
\* deletion of a pod fails or the policy asks to retry later returns a
\* requeue delay that is positive and at most 15 seconds
C14_FailedDeleteRequeues ==
    \A policy \in PolicyChoices, order \in OrderChoices, replaced \in ReplacedChoices :
        \A fail \in {0} \cup FailChoices(policy, FALSE, order, replaced) :
            LET this == Pass(fail, policy, FALSE, order, replaced)
            IN  (/\ cloud.spec.managedUpdate /\ ReachedEnd(this)
                 /\ Len(this.outOfDatePods) + Len(this.outOfDatePodsNotStarted) > 0
                 /\ \/ \E k \in CallsOn(this, "delete", "Pod") : ~this.calls[k].ok
                    \/ policy.retryLater)
                    => (this.requeueAfter > 0 /\ this.requeueAfter <= UpdateWait)

----------------------------------------------------------------------------
\* The synchronized resources

\* the resources a pass on the object generates and synchronizes
SyncKeys(spec) ==
    {"common", "statefulSet"}
       \cup (IF spec.nodeServices THEN {NodeKey(i) : i \in 0..(spec.replicas - 1)} ELSE {})
       \cup (IF spec.headless THEN {"headless"} ELSE {})
       \cup (IF spec.providedConfigMap THEN {} ELSE {"configMap"})
       \cup (IF spec.ingress THEN {"ingress"} ELSE {})
       \cup (IF spec.zkRef.provided THEN {"zk"} ELSE {})

\* a resource with a field that the copy functions watch set to another value
Edited(k, spec) ==
    IF k = "statefulSet" THEN [spec EXCEPT !.replicas = 0]
    ELSE IF k = "configMap" THEN [spec EXCEPT !.solrXml = <<"edited">>]
    ELSE <<"edited", k>>

\* another writer edits such a field, or deletes the resource (one resource at
\* a time is out of line)
OtherWriter ==
    /\ cloud.present
    /\ \A k \in SyncKeys(cloud.spec) : res[k].present /\ res[k].spec # Edited(k, res[k].spec)
    /\ \E k \in SyncKeys(cloud.spec) :
          \/ res' = [res EXCEPT ![k].spec = Edited(k, @)]
          \/ res' = [res EXCEPT ![k] = Absent]
    /\ pass' = NoPass
    /\ UNCHANGED <<cloud, stsStatus, pods, pvcs, zkStore, useZkCRD, faults>>

\* the kinds of the synchronized resources: a call on any of them may fail
SyncFaults == {"Service", "ConfigMap", "StatefulSet", "Ingress", "ZookeeperCluster"}

\* an object with a resource of every synchronized kind
InitSync ==
    InitWith({[BaseSpec EXCEPT !.zkRef = ProvidedZk, !.ingress = TRUE, !.nodeServices = TRUE]},
             {TRUE}, SyncFaults)

NextSync == Reconcile \/ OtherWriter

SpecSync == InitSync /\ [][NextSync]_vars

\* the positions of a pass's log at which an operation on a resource is logged
CallsAt(observed, ops, key) ==
    {i \in CallsOf(observed, ops) : observed.calls[i].name = key}

\* C15: a pass looks up every resource it generated, once; when the lookup
\* succeeds it issues next a create if the resource was absent, an update if
\* it was present and the field copy reported a change, and otherwise no write
\* of the resource at all; a write that succeeds leaves the generated content;
\* a call that fails is the last call of the pass, which returns the error
C15_CreateOrUpdate ==
    /\ \A k \in DOMAIN pass.desired :
          LET gets == CallsAt(pass, {"get"}, k)
              creates == CallsAt(pass, {"create"}, k)
              updates == CallsAt(pass, {"update"}, k)
              changed == pass.res[k].present /\ CopyFields(pass.desired[k], pass.res[k])
          IN  /\ Cardinality(gets) = 1
              /\ \A g \in gets :
                    IF pass.calls[g].ok
                    THEN /\ creates = (IF pass.res[k].present THEN {} ELSE {g + 1})
                         /\ updates = (IF changed THEN {g + 1} ELSE {})
                    ELSE creates \cup updates = {}
              /\ \A w \in creates \cup updates :
                    pass.calls[w].ok => res[k].present /\ res[k].spec = pass.desired[k]
    /\ \A f \in 1..Len(pass.calls) :
          pass.calls[f].kind \in SyncFaults /\ ~pass.calls[f].ok
             => f = Len(pass.calls) /\ pass.err = "api"

\* a pass created a resource it found absent, updated one it found changed
\* and wrote nothing to one it found as generated
C15_Witness ==
    /\ \E k \in DOMAIN pass.desired :
          ~pass.res[k].present /\ \E w \in CallsAt(pass, {"create"}, k) : pass.calls[w].ok
    /\ \E k \in DOMAIN pass.desired :
          pass.res[k].present /\ \E w \in CallsAt(pass, {"update"}, k) : pass.calls[w].ok
    /\ \E k \in DOMAIN pass.desired :
          /\ pass.res[k].present /\ ~CopyFields(pass.desired[k], pass.res[k])
          /\ CallsAt(pass, {"get"}, k) # {}
          /\ CallsAt(pass, {"create", "update"}, k) = {}

\* a pass returned the error of a create that failed, and one of an update
C15_Failed ==
    /\ pass.err = "api"
    /\ pass.calls[Len(pass.calls)].op \in {"create", "update"}
    /\ ~pass.calls[Len(pass.calls)].ok

----------------------------------------------------------------------------
\* The scenario of a fresh object: 3 replicas, no TLS, the external ensemble
\* zk:2181, and none of its resources present

ScenarioReplicas == 3

\* (the calls on the four resources may fail)
InitFresh ==
    InitWith({[BaseSpec EXCEPT !.replicas = ScenarioReplicas]},
             {TRUE}, {"Service", "ConfigMap", "StatefulSet"})

NextFresh == Reconcile \/ OtherWriter \/ StatefulSetController

\* passes keep running, and calls do not fail for ever
SpecFresh ==
    /\ InitFresh /\ [][NextFresh]_vars
    /\ []<><<ReconcilePass(FALSE)>>_vars /\ WF_vars(StatefulSetController)

\* the four resources of the scenario
FreshKeys == {"common", "headless", "configMap", "statefulSet"}

\* the pass found the four resources present and as it generated them
PresentAndUpToDate(observed) ==
    \A k \in FreshKeys :
        /\ k \in DOMAIN observed.desired
        /\ observed.res[k].present
        /\ ~CopyFields(observed.desired[k], observed.res[k])

\* C16: from the fresh object, repeated passes eventually create the common
\* Service, the headless Service, the ConfigMap and the StatefulSet, each by
\* a create of the pass; and every pass that finds the four present and up to
\* date, and in which no call fails, returns without an error and without
\* asking for a requeue
C16_FreshObjectConverges ==
    /\ \A k \in FreshKeys :
          <>(/\ \E w \in CallsAt(pass, {"create"}, k) : pass.calls[w].ok
             /\ res[k].present /\ res[k].owner /\ res[k].spec = pass.desired[k])
    /\ <>(\A k \in FreshKeys : res[k].present)
    /\ [](pass # NoPass /\ PresentAndUpToDate(pass)
            /\ (\A f \in 1..Len(pass.calls) : pass.calls[f].ok)
               => Completed(pass) /\ res = pass.res)

\* a pass found the four resources present and up to date and wrote nothing
C16_Witness ==
    /\ pass # NoPass /\ PresentAndUpToDate(pass)
    /\ \A f \in 1..Len(pass.calls) : pass.calls[f].ok
    /\ cloud.spec.replicas = 3 /\ cloud.spec.tls = "none" /\ cloud.spec.zkRef = ExternalZk
    /\ Completed(pass)
    /\ DOMAIN pods # {}

----------------------------------------------------------------------------
\* The ensemble reference

\* objects with a managed ensemble or with no ensemble reference at all, with
\* and without TLS, under an operator that uses the Zookeeper CRD or does not
InitZk ==
    InitWith({[BaseSpec EXCEPT !.zkRef = zk, !.tls = tls, !.providedConfigMap = TRUE] :
                 zk \in {NoZk, ProvidedZk}, tls \in {"none", "auto"}},
             BOOLEAN, {"ZookeeperCluster"})

NextZk == Reconcile \/ CertManagerIssue \/ OtherWriter

SpecZk == InitZk /\ [][NextZk]_vars

\* the object of the pass names no ensemble, or asks for a managed one of an
\* operator that does not use the Zookeeper CRD
BadZkReference(observed) ==
    /\ ~observed.instance.spec.zkRef.connectionInfo
    /\ ~observed.instance.spec.zkRef.provided \/ ~useZkCRD

\* the pass returned a bad-request error and called nothing but the fetch of
\* the object: no create, update or delete, and every resource is as it was
RejectedUntouched(observed) ==
    /\ observed.err = "badrequest"
    /\ CallsOf(observed, {"create", "update", "delete"}) = {}
    /\ Len(observed.calls) = 1
    /\ res = observed.res /\ pods = observed.pods

\* C17 as stated: every pass on an object with such an ensemble reference
\* returns a bad-request error and creates, updates and deletes nothing
C17_BadZkReferenceRejected ==
    pass # NoPass /\ BadZkReference(pass) => RejectedUntouched(pass)

\* C17: a pass on an object that needs no defaulting and whose ensemble
\* reference is neither external nor managed, or is managed while the operator
\* does not use the Zookeeper CRD, returns a bad-request error and creates,
\* updates and deletes nothing
C17_BadZkReferenceRejectedOnceDefaulted ==
    pass # NoPass /\ pass.instance.defaulted /\ BadZkReference(pass)
        => RejectedUntouched(pass)

\* a pass rejected the request of a managed ensemble
C17_Witness ==
    /\ pass # NoPass /\ pass.instance.defaulted /\ BadZkReference(pass)
    /\ pass.instance.spec.zkRef.provided /\ ~useZkCRD
    /\ pass.instance.spec.tls = "auto"
    /\ RejectedUntouched(pass)

\* a pass rejected an object without an ensemble reference
C17_NoReference ==
    /\ pass # NoPass /\ pass.instance.defaulted
    /\ ~pass.instance.spec.zkRef.provided /\ useZkCRD
    /\ RejectedUntouched(pass)

\* the pass found the managed ensemble absent and created it
EnsembleCreated(observed) ==
    /\ observed.instance.spec.zkRef.provided
    /\ ~observed.res["zk"].present
    /\ \E i \in CallsOn(observed, "create", "ZookeeperCluster") : observed.calls[i].ok

\* the calls of a pass on the objects of the TLS certificate step
TlsCalls(observed) ==
    {i \in 1..Len(observed.calls) : observed.calls[i].kind \in {"Secret", "Issuer", "Certificate"}}

\* C18: a pass that finds the managed ensemble absent and creates it, and so
\* has no connection string, looks up and creates no keystore secret, issuer
\* or certificate, and creates and updates no StatefulSet
C18_NoTlsNoStatefulSetWithoutEnsemble ==
    pass # NoPass /\ EnsembleCreated(pass)
        => /\ TlsCalls(pass) = {}
           /\ CallsAt(pass, {"create", "update"}, "statefulSet") = {}

\* what holds of such a pass: it creates and updates no StatefulSet
C18_NoStatefulSetWithoutEnsemble ==
    pass # NoPass /\ EnsembleCreated(pass)
        => /\ CallsAt(pass, {"create", "update"}, "statefulSet") = {}
           /\ res["statefulSet"] = pass.res["statefulSet"]

----------------------------------------------------------------------------
\* The status

\* the user changes the image tag once more
UserUpgradeAgain ==
    /\ cloud.present /\ ~cloud.deleting /\ cloud.spec.tag = "8.8"
    /\ cloud' = [cloud EXCEPT !.spec.tag = "8.9"]
    /\ pass' = NoPass
    /\ UNCHANGED <<res, stsStatus, pods, pvcs, zkStore, useZkCRD, faults>>

\* the StatefulSet controller replaces a pod that is not at the StatefulSet's
\* pod template, when the update is not the operator's
RollingUpdate ==
    /\ res["statefulSet"].present /\ ~cloud.spec.managedUpdate
    /\ stsStatus.updateRevision = res["statefulSet"].spec.template
    /\ \E i \in DOMAIN pods :
          /\ pods[i].revision # stsStatus.updateRevision
          /\ pods' = [pods EXCEPT ![i] = Replacement(@, stsStatus.updateRevision)]
    /\ pass' = NoPass
    /\ UNCHANGED <<cloud, res, stsStatus, pvcs, zkStore, useZkCRD, faults>>

\* (the status write-back may fail)
InitStatus ==
    InitWith({[BaseSpec EXCEPT !.providedConfigMap = TRUE]}, {TRUE}, {"SolrCloudStatus"})

NextStatus ==
    \/ Reconcile
    \/ UserUpgrade
    \/ UserUpgradeAgain
    \/ StatefulSetController
    \/ RollingUpdate

SpecStatus == InitStatus /\ [][NextStatus]_vars

\* what holds of the write-back: a pass that reaches the end without error
\* writes the status if and only if the status it computed differs from the
\* stored one, and then the stored status is the computed one
C19_WrittenIffDifferent ==
    pass # NoPass /\ ReachedEnd(pass)
        => /\ CallsOn(pass, "update", "SolrCloudStatus") # {} <=> pass.newStatus # pass.status
           /\ cloud.status = pass.newStatus

\* C19: a pass that reaches the end without error writes the status if and
\* only if the status it computed differs from the stored one; so a pass that
\* follows such a pass on the same pods, listed in whatever order, writes no
\* status
C19_StatusWriteBack ==
    /\ [](pass # NoPass /\ ReachedEnd(pass)
            => (CallsOn(pass, "update", "SolrCloudStatus") # {} <=> pass.newStatus # pass.status))
    /\ [][NextPass /\ ReachedEnd(pass) /\ ReachedEnd(pass') /\ pass'.pods = pass.pods
             => CallsOn(pass', "update", "SolrCloudStatus") = {}]_vars

\* statuses that an earlier pass may have stored instead: that of a new
\* object, and the stored one with the urlScheme flag the other way round
OtherStatuses == {NoStatus, [cloud.status EXCEPT !.urlSchemeClusterProperty = ~@]}

\* C20: a pass and the pass on the same spec, pods, StatefulSet status and
\* coordination store, but from another stored status, compute the same new
\* status when both reach the end without error
C20_StatusNotCarriedOver ==
    [][\A status \in OtherStatuses, policy \in PolicyChoices, raced \in RacedChoices,
          order \in OrderChoices, replaced \in ReplacedChoices :
            LET this == Pass(0, policy, raced, order, replaced)
                that == PassFrom(status, 0, policy, raced, order, replaced)
            IN  ReachedEnd(this) /\ ReachedEnd(that) => this.newStatus = that.newStatus]_vars

\* what holds: the two passes agree on every field of the new status but the
\* urlScheme flag
C20_AllButUrlScheme ==
    [][\A status \in OtherStatuses, policy \in PolicyChoices, raced \in RacedChoices,
          order \in OrderChoices, replaced \in ReplacedChoices :
            LET this == Pass(0, policy, raced, order, replaced)
                that == PassFrom(status, 0, policy, raced, order, replaced)
            IN  ReachedEnd(this) /\ ReachedEnd(that)
                   => [this.newStatus EXCEPT !.urlSchemeClusterProperty = FALSE]
                         = [that.newStatus EXCEPT !.urlSchemeClusterProperty = FALSE]]_vars

----------------------------------------------------------------------------
\* The status aggregation

\* the elements of a list
Listed(list) == {list[k] : k \in 1..Len(list)}

\* the pass listed the pods
Aggregated(observed) ==
    \E k \in CallsOn(observed, "list", "Pod") : observed.calls[k].ok

\* C21: after a pass that listed the pods, the up-to-date count plus the
\* number of pods returned as out of date is the number of pods listed, and
\* every out-of-date pod is returned once, either as not started or as started
C21_PodsPartitioned ==
    pass # NoPass /\ Aggregated(pass)
        => LET started == pass.outOfDatePods
               notStarted == pass.outOfDatePodsNotStarted
           IN  /\ pass.newStatus.upToDateNodes + Len(started) + Len(notStarted)
                     = Cardinality(DOMAIN pass.pods)
               /\ Listed(started) \cap Listed(notStarted) = {}
               /\ Cardinality(Listed(started)) = Len(started)
               /\ Cardinality(Listed(notStarted)) = Len(notStarted)
               /\ Listed(started) \cup Listed(notStarted) \subseteq DOMAIN pass.pods
               /\ \A i \in Listed(started) \cup Listed(notStarted) :
                     i \in Listed(notStarted) <=> ContainerNotStarted(pass.pods[i])

\* a pass listed a pod that was up to date, and returned another as out of
\* date that had started
C21_Witness ==
    /\ pass # NoPass /\ Aggregated(pass)
    /\ pass.newStatus.upToDateNodes = 1
    /\ Len(pass.outOfDatePods) = 1
    /\ Len(pass.outOfDatePodsNotStarted) = 0

\* a pod's ready condition turns true (its container has started) or false;
\* the StatefulSet's status follows only when its controller next reports
KubeletReports ==
    /\ \E i \in DOMAIN pods :
         pods' = [pods EXCEPT ![i].ready = ~@, ![i].started = ~pods[i].ready]
    /\ pass' = NoPass
    /\ UNCHANGED <<cloud, res, stsStatus, pvcs, zkStore, useZkCRD, faults>>

\* (the list of the pods may fail)
InitReady ==
    InitWith({[BaseSpec EXCEPT !.providedConfigMap = TRUE]}, {TRUE}, {"Pod"})

NextReady ==
    \/ Reconcile
    \/ StatefulSetController
    \/ KubeletReports

SpecReady == InitReady /\ [][NextReady]_vars

\* C22: after a pass that found the StatefulSet and listed the pods, the
\* ready-replica count and the replica count of the computed status are those
\* of the StatefulSet's status, whatever the ready conditions of the pods are
C22_CountsFromStatefulSetStatus ==
    pass # NoPass /\ Aggregated(pass) /\ pass.res["statefulSet"].present
        => /\ pass.newStatus.readyReplicas = pass.stsStatus.readyReplicas
           /\ pass.newStatus.replicas = pass.stsStatus.replicas

\* what holds: the replica count is that of the StatefulSet's status, and the
\* ready-replica count is the number of listed pods whose ready condition is true
C22_ReadyCountedFromPods ==
    pass # NoPass /\ Aggregated(pass) /\ pass.res["statefulSet"].present
        => /\ pass.newStatus.readyReplicas
                 = Cardinality({i \in DOMAIN pass.pods : pass.pods[i].ready})
           /\ pass.newStatus.replicas = pass.stsStatus.replicas

\* the listed pods that run (have container statuses) at a version other than
\* the desired image tag
OtherVersionPods(observed) ==
    {i \in DOMAIN observed.pods :
        /\ observed.pods[i].hasStatus
        /\ observed.pods[i].version # observed.instance.spec.tag}

\* C23: after a pass that listed the pods, if some running pod's version is
\* not the desired tag, the target version is the desired tag and the version
\* is that of the first such pod by name, in whatever order the pods were
\* listed; otherwise the target version is empty and the version is the tag
C23_VersionOfFirstByName ==
    pass # NoPass /\ Aggregated(pass)
        => LET others == OtherVersionPods(pass)
               tag == pass.instance.spec.tag
           IN  IF others # {}
               THEN /\ pass.newStatus.targetVersion = tag
                    /\ pass.newStatus.version = pass.pods[Sorted(others)[1]].version
               ELSE /\ pass.newStatus.targetVersion = ""
                    /\ pass.newStatus.version = tag

\* what holds: the version is that of one of these pods, the first listed
C23_VersionOfSomeOther ==
    pass # NoPass /\ Aggregated(pass)
        => LET others == OtherVersionPods(pass)
               tag == pass.instance.spec.tag
           IN  IF others # {}
               THEN /\ pass.newStatus.targetVersion = tag
                    /\ \E i \in others : pass.newStatus.version = pass.pods[i].version
               ELSE /\ pass.newStatus.targetVersion = ""
                    /\ pass.newStatus.version = tag

\* C24: after a pass that listed the pods, the node-status list has one entry
\* for each listed pod and no other, under the pod's name, and the names are
\* in ascending order, in whatever order the pods were listed
C24_NodeStatusesSortedByName ==
    pass # NoPass /\ Aggregated(pass)
        => LET nodes == pass.newStatus.solrNodes
           IN  /\ Len(nodes) = Cardinality(DOMAIN pass.pods)
               /\ {nodes[k].name : k \in 1..Len(nodes)} = DOMAIN pass.pods
               /\ \A k \in 1..Len(nodes) :
                     nodes[k] = NodeStatus(pass.instance, pass.pods[nodes[k].name],
                                           nodes[k].name, pass.stsStatus.updateRevision)
               /\ \A k \in 1..(Len(nodes) - 1) : nodes[k].name < nodes[k + 1].name

\* a pass listed the last pod first, the pods being told apart by their versions
C24_Witness ==
    /\ pass # NoPass /\ Aggregated(pass)
    /\ Len(pass.newStatus.solrNodes) = MaxReplicas
    /\ OtherVersionPods(pass) = DOMAIN pass.pods
    /\ pass.newStatus.version = pass.pods[MaxReplicas - 1].version
    /\ pass.newStatus.version # pass.pods[0].version

----------------------------------------------------------------------------
\* The user's own ConfigMap

\* contents the check of lines 209-227 rejects: no data, data without a
\* solr.xml entry, a solr.xml without the hostPort placeholder
InvalidConfigMaps ==
    {[data |-> FALSE, hasSolrXml |-> FALSE, solrXml |-> <<>>],
     [data |-> TRUE, hasSolrXml |-> FALSE, solrXml |-> <<>>],
     [data |-> TRUE, hasSolrXml |-> TRUE, solrXml |-> <<"<solr>", "</solr>">>]}

\* the user edits their ConfigMap
UserEditsConfigMap ==
    /\ cloud.present /\ cloud.spec.providedConfigMap
    /\ \E content \in InvalidConfigMaps \cup {ProvidedConfigMap.spec} :
          /\ content # res["providedCM"].spec
          /\ res' = [res EXCEPT !["providedCM"] = Foreign(content)]
    /\ pass' = NoPass
    /\ UNCHANGED <<cloud, stsStatus, pods, pvcs, zkStore, useZkCRD, faults>>

\* (the calls on the Services, on the ConfigMap and on the StatefulSet may fail)
InitConfigMap ==
    InitWith({[BaseSpec EXCEPT !.providedConfigMap = TRUE]}, {TRUE},
             {"Service", "ConfigMap", "StatefulSet"})

NextConfigMap ==
    \/ Reconcile
    \/ UserEditsConfigMap
    \/ StatefulSetController

SpecConfigMap == InitConfigMap /\ [][NextConfigMap]_vars

\* the pass read the user's ConfigMap
ProvidedRead(observed) ==
    \E k \in CallsAt(observed, {"get"}, "providedCM") :
        observed.calls[k].ok /\ observed.calls[k].found

\* the pass returned an error other than that of an API call, and wrote
\* neither the generated ConfigMap nor the StatefulSet nor the status
RejectedConfigMap(observed) ==
    /\ observed.err \notin {NoError, "api", "notfound"}
    /\ CallsAt(observed, {"create", "update"}, "configMap") = {}
    /\ CallsAt(observed, {"create", "update"}, "statefulSet") = {}
    /\ CallsOn(observed, "update", "SolrCloudStatus") = {}
    /\ res["configMap"] = observed.res["configMap"]
    /\ res["statefulSet"] = observed.res["statefulSet"]
    /\ cloud.status = observed.status

\* passes that read ConfigMaps with different ones of the three faults return
\* different errors
DistinctConfigMapErrors ==
    \A one, other \in InvalidConfigMaps :
       \A policy \in PolicyChoices, order \in OrderChoices :
          LET this == PassOn([res EXCEPT !["providedCM"] = Foreign(one)],
                             0, policy, FALSE, order, {})
              that == PassOn([res EXCEPT !["providedCM"] = Foreign(other)],
                             0, policy, FALSE, order, {})
          IN  one # other /\ ProvidedRead(this) /\ ProvidedRead(that)
                 => this.err # that.err

----------------------------------------------------------------------------
\* Conditions that are not ready yet

\* the managed ensemble, the certificate and the ensemble's hosts coming up
NextWait ==
    \/ Reconcile
    \/ CertManagerIssue
    \/ OtherWriter
    \/ ZkAvailability

SpecWait == InitZk /\ [][NextWait]_vars

\* the pass got as far as the TLS coordinator, none of its calls failed, and
\* the certificate's backing secret was absent
CertificateNotIssued(observed) ==
    /\ observed.instance.spec # <<>> /\ observed.instance.spec.tls = "auto"
    /\ observed.tlsChecked /\ TlsCallsOk(observed)
    /\ ~observed.res["tlsSecret"].present

\* the pass tried to connect to the ensemble and its hosts did not resolve
HostNotResolvable(observed) ==
    /\ zkStore.up = "nohost"
    /\ \E k \in CallsOn(observed, "connect", "ZooKeeper") : ~observed.calls[k].ok

\* the pass returned no error and a delay, and left the stored status alone
WaitsAndKeepsStatus(observed) ==
    /\ observed.err = NoError
    /\ observed.requeueAfter > 0
    /\ CallsOn(observed, "update", "SolrCloudStatus") = {}
    /\ cloud.status = observed.status

\* C26: a pass that creates the managed ensemble, one that finds the
\* certificate not issued yet, and one that cannot resolve the ensemble's hosts
\* each return no error and a requeue delay greater than zero, and leave the
\* stored status unchanged
C26_NotReadyRequeues ==
    pass # NoPass
       /\ (EnsembleCreated(pass) \/ CertificateNotIssued(pass) \/ HostNotResolvable(pass))
        => WaitsAndKeepsStatus(pass)

\* what holds: the same of the certificate and of the hosts
C26_CertificateAndHostRequeue ==
    pass # NoPass /\ (CertificateNotIssued(pass) \/ HostNotResolvable(pass))
        => WaitsAndKeepsStatus(pass)

\* (a pass waited for the hosts to resolve)
C26_HostWaited ==
    pass # NoPass /\ HostNotResolvable(pass) /\ pass.requeueAfter = ZkWait

----------------------------------------------------------------------------
\* Errors of the API

\* the get, list, create and update calls of a pass that failed
FailedCalls(observed) ==
    {k \in CallsOf(observed, {"get", "list", "create", "update"}) :
        observed.calls[k].kind # "ZooKeeper" /\ ~observed.calls[k].ok}

\* C27: a pass in which a get, list, create or update call fails, the update
\* of the storage finalizer and the listing of the claims included, returns
\* the error of that call
C27_ApiFailureReturned ==
    pass # NoPass /\ FailedCalls(pass) # {} => pass.err = "api"

\* what holds: such a pass returns the error, or, when the call is one of the
\* storage step, no error and a requeue after 10 s
C27_ApiFailureReturnedOrRequeued ==
    pass # NoPass /\ FailedCalls(pass) # {}
        => \/ pass.err = "api"
           \/ /\ pass.err = NoError /\ pass.requeueAfter = FinalizerWait
              /\ \A k \in FailedCalls(pass) :
                    \/ k \in FinalizerUpdates(pass, TRUE) \cup FinalizerUpdates(pass, FALSE)
                    \/ pass.calls[k].kind = "PersistentVolumeClaim"

\* the lookups, creates and updates of the TLS certificate step that failed
FailedTlsCalls(observed) ==
    {k \in FailedCalls(observed) : observed.calls[k].kind \in TlsFaults}

\* C28: a pass in which a lookup, create or update of the TLS coordinator
\* fails, the lookups of the Certificate and of its backing secret included,
\* returns an error (the lookup of the secret after the coordinator, line
\* 277, is of the same kind and returns its error too)
C28_TlsFailureAborts ==
    pass # NoPass /\ FailedTlsCalls(pass) # {} => pass.err # NoError

\* what holds: such a pass returns the error unless the call is the first
\* lookup of the Certificate, after which the coordinator goes on as if it
\* were absent, or a lookup of the backing secret in the coordinator, after
\* which the certificate counts as not issued at that point
C28_TlsFailureAbortsButLookups ==
    pass # NoPass /\ FailedTlsCalls(pass) # {}
        => \/ pass.err = "api"
           \/ \A k \in FailedTlsCalls(pass) :
                 \/ /\ pass.calls[k].kind = "Certificate"
                    /\ \A j \in 1..(k - 1) : pass.calls[j].kind # "Certificate"
                 \/ pass.calls[k].name = "tlsSecret" /\ pass.calls[k].op = "get"

----------------------------------------------------------------------------
\* Passes run again after a pass that stopped

\* the number of passes run again
MaxPasses == 5

\* the objects as they are, and as a pass leaves them
Here == [cloud |-> cloud, res |-> res, pods |-> pods, pvcs |-> pvcs, zkStore |-> zkStore]

World(s) == [cloud |-> s.cloud, res |-> s.res, pods |-> s.pods, pvcs |-> s.pvcs,
             zkStore |-> s.zkStore]

\* a pass on the objects as an earlier pass left them, nothing else having
\* changed; its call number fail fails (0: none)
PassAfter(w, fail) ==
    Steps(FetchInstance([NewPass(w.res, fail, [pods |-> {}, retryLater |-> FALSE], FALSE,
                                 Sorted(DOMAIN w.pods), {})
                            EXCEPT !.cloud = w.cloud, !.instance = w.cloud, !.pods = w.pods,
                                   !.pvcs = w.pvcs, !.zkStore = w.zkStore]))

\* passes without a failure run one after the other, until one changes nothing
RECURSIVE Rerun(_, _)
Rerun(w, n) ==
    IF n = 0 THEN w
    ELSE LET next == World(PassAfter(w, 0))
         IN  IF next = w THEN w ELSE Rerun(next, n - 1)

\* one more pass changes nothing
Settled(w) == World(PassAfter(w, 0)) = w

\* (the passes run again do come to rest, after a whole pass and after a
\* pass that stopped)
C29_PassesSettle ==
    /\ Settled(Rerun(Here, MaxPasses))
    /\ \A k \in 1..Len(PassAfter(Here, 0).calls) :
          Settled(Rerun(World(PassAfter(Here, k)), MaxPasses))

\* C29: in every state, passes run again after a pass that stopped at any of
\* its calls bring the resources to the state to which passes that do not
\* stop bring them, nothing else changing
C29_StoppedPassConverges ==
    \A k \in 1..Len(PassAfter(Here, 0).calls) :
        Rerun(World(PassAfter(Here, k)), MaxPasses).res = Rerun(Here, MaxPasses).res

\* what holds: the same unless the pass stopped at the update of the
\* Certificate, the TLS secret being deleted already (lines 955-965)
C29_StoppedPassConvergesButCertificate ==
    \A k \in 1..Len(PassAfter(Here, 0).calls) :
        LET call == PassAfter(Here, 0).calls[k]
        IN  ~(call.op = "update" /\ call.kind = "Certificate")
               => Rerun(World(PassAfter(Here, k)), MaxPasses).res = Rerun(Here, MaxPasses).res

----------------------------------------------------------------------------
\* The finalizer as the only sign that claims are to be cleaned up

\* C30: a pass on an object that is being deleted and has no storage
\* finalizer deletes no claim, nor tries to, and does not add the finalizer,
\* whatever the reclaim policy is
C30_NoCleanupWithoutFinalizer ==
    pass # NoPass /\ pass.instance.deleting /\ ~pass.instance.finalizer
        => /\ ClaimsTried(pass) = {}
           /\ FinalizerUpdates(pass, TRUE) = {}
           /\ ~cloud.finalizer

\* a pass on such an object with the delete reclaim policy found the
\* StatefulSet, went through to the end, and left the claims that exist
C30_Witness ==
    /\ pass # NoPass /\ pass.instance.deleting /\ ~pass.instance.finalizer
    /\ pass.instance.spec.storageDelete
    /\ pass.res["statefulSet"].present
    /\ ReachedEnd(pass)
    /\ pvcs # {}

----------------------------------------------------------------------------
\* The finalizer of an object that asks for the deletion of its claims no longer

\* the pass went on to the storage step: it found the StatefulSet or created
\* it, and no call on the StatefulSet failed
StorageStepReached(observed) ==
    /\ StatefulSetSeen(observed)
    /\ \A i \in 1..Len(observed.calls) :
          observed.calls[i].kind = "StatefulSet" => observed.calls[i].ok

\* the pass started on an object that carries the finalizer and whose spec
\* does not ask for persistent storage with the delete reclaim policy
FinalizerLeftOver(observed) ==
    observed.instance.finalizer /\ ~observed.instance.spec.storageDelete

\* what the branch of lines 682-687 does: one update of the object with the
\* finalizer removed, which takes the finalizer off the stored object if it is
\* accepted, and no list and no delete of a claim
FinalizerOnlyRemoved(observed) ==
    /\ Cardinality(FinalizerUpdates(observed, FALSE)) = 1
    /\ FinalizerUpdates(observed, TRUE) = {}
    /\ (\A u \in FinalizerUpdates(observed, FALSE) : observed.calls[u].ok) => ~cloud.finalizer
    /\ CallsOn(observed, "list", "PersistentVolumeClaim") = {}
    /\ CallsOn(observed, "delete", "PersistentVolumeClaim") = {}

\* C31: when the spec no longer asks for persistent storage with the delete
\* reclaim policy and the finalizer is present, a pass that goes on to the
\* storage step removes the finalizer and persists the object, and deletes no
\* claim, whether or not the object is being deleted
C31_LeftOverFinalizerRemoved ==
    pass # NoPass /\ FinalizerLeftOver(pass) /\ StorageStepReached(pass)
        => FinalizerOnlyRemoved(pass)

\* C31 witness: such a pass on an object that is being deleted has removed the
\* finalizer and left the claims
C31_Witness ==
    /\ pass # NoPass /\ FinalizerLeftOver(pass) /\ StorageStepReached(pass)
    /\ pass.instance.deleting
    /\ ~cloud.finalizer /\ pvcs # {}

\* the same on an object that is not being deleted
C31_WitnessLive ==
    /\ pass # NoPass /\ FinalizerLeftOver(pass) /\ StorageStepReached(pass)
    /\ ~pass.instance.deleting
    /\ ~cloud.finalizer /\ pvcs # {}

----------------------------------------------------------------------------
\* Orphaned claims: a cluster of the scenario's size with the delete reclaim
\* policy is scaled down and up again, while deletes of claims may fail

InitOrphans ==
    InitWith({[BaseSpec EXCEPT !.replicas = ScenarioReplicas, !.storageDelete = TRUE,
                               !.providedConfigMap = TRUE]},
             {TRUE}, {"PersistentVolumeClaim"})

NextOrphans ==
    \/ Reconcile
    \/ UserScale
    \/ StatefulSetController
    \/ PodReadiness

SpecOrphans == InitOrphans /\ [][NextOrphans]_vars

\* the pass ran the orphan cleanup: on an object that is not being deleted and
\* has the delete reclaim policy, with as many ready replicas as replicas in
\* the status it read, it went on to the storage step, and neither the update
\* that adds the finalizer nor the list of the claims failed
CleanupRun(observed) ==
    /\ ~observed.instance.deleting /\ observed.instance.spec.storageDelete
    /\ observed.instance.statusReady
    /\ StorageStepReached(observed)
    /\ \A i \in CallsOn(observed, "update", "SolrCloud") : observed.calls[i].ok
    /\ \A i \in CallsOn(observed, "list", "PersistentVolumeClaim") : observed.calls[i].ok

\* the claims the pass listed, and the orphans among them: those whose ordinal
\* is not below the desired replica count
ClaimsListed(observed) ==
    UNION {observed.calls[i].items : i \in CallsOn(observed, "list", "PersistentVolumeClaim")}

OrphansListed(observed) ==
    {ordinal \in ClaimsListed(observed) :
        IsPVCOrphan(ordinal, observed.instance.spec.replicas)}

\* C32: a pass that runs the orphan cleanup lists the claims and tries to
\* delete every listed claim whose ordinal is not below the desired replica
\* count, however many claims are listed
C32_EveryOrphanTried ==
    pass # NoPass /\ CleanupRun(pass)
        => /\ CallsOn(pass, "list", "PersistentVolumeClaim") # {}
           /\ OrphansListed(pass) \subseteq ClaimsTried(pass)

\* what holds: the orphans are tried if more claims are listed than replicas
\* are desired, and no claim is tried otherwise
C32_OrphansTriedIfMoreClaimsThanReplicas ==
    pass # NoPass /\ CleanupRun(pass)
        => /\ CallsOn(pass, "list", "PersistentVolumeClaim") # {}
           /\ ClaimsTried(pass) =
                 IF Cardinality(ClaimsListed(pass)) > pass.instance.spec.replicas
                 THEN OrphansListed(pass) ELSE {}

\* a cleanup that tried every orphan of three claims listed
C32_OrphansTried ==
    /\ pass # NoPass /\ CleanupRun(pass)
    /\ Cardinality(ClaimsListed(pass)) = ScenarioReplicas
    /\ Cardinality(ClaimsTried(pass)) >= 2

----------------------------------------------------------------------------
\* Batches of deletes: the claims of an object that is being deleted, and the
\* pods of a managed update; any delete of a claim or of a pod may fail

InitBatches ==
    InitWith({[BaseSpec EXCEPT !.storageDelete = TRUE, !.managedUpdate = TRUE,
                               !.providedConfigMap = TRUE]},
             {TRUE}, {"Pod", "PersistentVolumeClaim"})

\* the solr container of the first pod starts and the pod turns ready; the
\* other pods stay as they were created (a ready pod and pods that have not
\* started are then out of date together)
FirstPodReady ==
    /\ 0 \in DOMAIN pods /\ ~pods[0].ready
    /\ pods' = [pods EXCEPT ![0].ready = TRUE, ![0].started = TRUE]
    /\ stsStatus' = [stsStatus EXCEPT !.readyReplicas =
                         Cardinality({j \in DOMAIN pods : pods'[j].ready})]
    /\ pass' = NoPass
    /\ UNCHANGED <<cloud, res, pvcs, zkStore, useZkCRD, faults>>

NextBatches ==
    \/ Reconcile
    \/ UserUpgrade
    \/ UserDelete
    \/ StatefulSetController
    \/ FirstPodReady

SpecBatches == InitBatches /\ [][NextBatches]_vars

\* the positions of a log at which a delete of a claim or of a pod is logged,
\* and those at which it failed
BatchDeletes(calls) ==
    {i \in 1..Len(calls) :
        calls[i].op = "delete" /\ calls[i].kind \in {"Pod", "PersistentVolumeClaim"}}

FailedDeletes(calls) == {i \in BatchDeletes(calls) : ~calls[i].ok}

\* the items a log asks to delete, in the order of the log
RECURSIVE DeleteAttempts(_)
DeleteAttempts(calls) ==
    IF Len(calls) = 0 THEN <<>>
    ELSE LET rest == DeleteAttempts(Tail(calls))
         IN  IF 1 \in BatchDeletes(calls)
             THEN <<[kind |-> Head(calls).kind, items |-> Head(calls).items]>> \o rest
             ELSE rest

\* the claims of the batch of a pass: every claim listed if the object is being
\* deleted, and the orphans listed if it is not (lines 708-714, 737-739)
ClaimBatch(observed) ==
    IF observed.instance.deleting THEN ClaimsListed(observed)
    ELSE IF Cardinality(ClaimsListed(observed)) > observed.instance.spec.replicas
    THEN OrphansListed(observed) ELSE {}

\* the pods of the batch of a pass, in their order: those that had not started
\* and those the availability policy named (lines 383-390)
PodBatch(observed) ==
    IF observed.instance.spec.managedUpdate
    THEN observed.outOfDatePodsNotStarted \o observed.additionalPodsToUpdate
    ELSE <<>>

\* the delete attempts for both batches, item by item
BatchAttempts(observed) ==
    LET claims == Sorted(ClaimBatch(observed))
        batch == PodBatch(observed)
    IN  [k \in 1..Len(claims) |-> [kind |-> "PersistentVolumeClaim", items |-> {claims[k]}]]
            \o [k \in 1..Len(batch) |-> [kind |-> "Pod", items |-> {batch[k]}]]

\* a delete of a batch failed in the pass, and no other call did
OnlyDeletesFailed(observed) ==
    /\ FailedDeletes(observed.calls) # {}
    /\ \A i \in 1..Len(observed.calls) :
          ~observed.calls[i].ok => i \in FailedDeletes(observed.calls)

\* C33: in a batch of deletes of claims or of pods during a rollout, a failed
\* delete of one item does not prevent the delete attempt for every remaining
\* item of the batch, and does not make the pass return an error
C33_FailedDeleteSkipsNothing ==
    pass # NoPass /\ OnlyDeletesFailed(pass)
        => /\ DeleteAttempts(pass.calls) = BatchAttempts(pass)
           /\ pass.err = NoError

\* C33 witness: the first delete of a batch of two claims failed, the second
\* claim was deleted all the same, and the pass went on to its end
C33_Witness ==
    /\ pass # NoPass /\ pass.err = NoError
    /\ \E i, j \in CallsOn(pass, "delete", "PersistentVolumeClaim") :
          i < j /\ ~pass.calls[i].ok /\ pass.calls[j].ok
    /\ Cardinality(pvcs) = 1

\* the same of a batch of two pods
C33_WitnessPods ==
    /\ pass # NoPass /\ pass.err = NoError
    /\ \E i, j \in CallsOn(pass, "delete", "Pod") :
          i < j /\ ~pass.calls[i].ok /\ pass.calls[j].ok
    /\ Cardinality(DOMAIN pods) = 1

----------------------------------------------------------------------------
\* The flag of the URL scheme and the node it stands for

\* the pass turned the flag of the status on: the status it read had it off,
\* and the status now stored has it on
FlagTurnedOn(observed) ==
    ~observed.status.urlSchemeClusterProperty /\ cloud.status.urlSchemeClusterProperty

\* the positions of a pass's log at which a call on the ensemble is logged
ZkCalls(observed, op) == CallsOn(observed, op, "ZooKeeper")

\* C34: the flag recording that the URL scheme was pushed is turned on by a
\* pass only if the configuration node of the ensemble holds urlScheme=https:
\* a write rejected because the node changed between the pass's read and its
\* write does not set the flag
C34_FlagOnlyIfNodeHoldsHttps ==
    pass # NoPass /\ FlagTurnedOn(pass) => zkStore.node = "https"

\* what holds: a pass turns the flag on only if it read the node with the
\* value, or created it, or issued the version-checked write of it, accepted
\* or rejected
C34_FlagOnlyIfWriteIssued ==
    pass # NoPass /\ FlagTurnedOn(pass)
        => \/ zkStore.node = "https"
           \/ \E i \in ZkCalls(pass, "zkset") : ~pass.calls[i].ok

\* a pass turned the flag on after its write was accepted
C34_WriteAccepted ==
    /\ pass # NoPass /\ FlagTurnedOn(pass)
    /\ \E i \in ZkCalls(pass, "zkset") : pass.calls[i].ok
    /\ zkStore.node = "https"

----------------------------------------------------------------------------
\* The hash of solr.xml handed to the generation of the StatefulSet

\* the pass generated the StatefulSet
StatefulSetGenerated(observed) == "statefulSet" \in DOMAIN observed.desired

\* the hash it handed over, as the template of the generated StatefulSet has it
HashHandedOver(observed) == observed.desired["statefulSet"].template.solrXmlMd5

\* the ConfigMap in effect after the pass: the user's own or the generated one
ConfigMapInEffect(observed) ==
    IF observed.instance.spec.providedConfigMap THEN res["providedCM"] ELSE res["configMap"]

\* C35: in every pass that generates the StatefulSet, the hash handed over is
\* the hash of the solr.xml of the ConfigMap in effect, whether the pass
\* created the ConfigMap, updated it or left it unchanged
C35_HashOfConfigMapInEffect ==
    pass # NoPass /\ StatefulSetGenerated(pass)
        => HashHandedOver(pass) = Md5(ConfigMapInEffect(pass).spec.solrXml)

\* what holds: the hash is that of the solr.xml if the ConfigMap is the user's
\* own or the pass created or updated it, and the empty string if the pass
\* found the generated ConfigMap unchanged
C35_HashUnlessUnchanged ==
    pass # NoPass /\ StatefulSetGenerated(pass)
        => HashHandedOver(pass) =
              IF \/ pass.instance.spec.providedConfigMap
                 \/ CallsOn(pass, "create", "ConfigMap") # {}
                 \/ CallsOn(pass, "update", "ConfigMap") # {}
              THEN Md5(ConfigMapInEffect(pass).spec.solrXml)
              ELSE NoMd5

\* a pass that created the generated ConfigMap handed its hash over
C35_HashOfCreated ==
    /\ pass # NoPass /\ StatefulSetGenerated(pass)
    /\ CallsOn(pass, "create", "ConfigMap") # {}
    /\ HashHandedOver(pass) = Md5(GeneratedSolrXml)

----------------------------------------------------------------------------
\* The spec of the object during a pass: TLS with a restart on every change of
\* the TLS secret, and a reclaim policy that the user changes

InitSecretVersion ==
    InitWith({[BaseSpec EXCEPT !.tls = "auto", !.issuerRef = TRUE, !.providedConfigMap = TRUE,
                               !.restartOnTLSSecretUpdate = restart, !.storageDelete = d] :
                 restart \in BOOLEAN, d \in BOOLEAN},
             {TRUE}, {"SolrCloud"})

NextSecretVersion ==
    \/ Reconcile
    \/ UserSetReclaimPolicy
    \/ UserChangeCertificate
    \/ CertManagerIssue
    \/ StatefulSetController

SpecSecretVersion == InitSecretVersion /\ [][NextSecretVersion]_vars

\* the pass started on an object that needed no defaulting
PastDefaulting(observed) == observed.instance.defaulted

\* C36: apart from the defaulting step, a pass leaves the spec of the object
\* as it read it: no update of the object that the pass issues, such as the
\* one that adds or removes the storage finalizer, persists a spec field that
\* the pass computed, such as the resource version of the TLS secret
C36_SpecLeftUnchanged ==
    pass # NoPass /\ PastDefaulting(pass) => cloud.spec = pass.instance.spec

\* what holds: such a pass changes no field of the spec but the TLS secret's
\* version, and that one only with an accepted update of the finalizer
C36_SpecUnchangedButSecretVersion ==
    pass # NoPass /\ PastDefaulting(pass)
        => /\ [cloud.spec EXCEPT !.tlsSecretVersion = 0]
                 = [pass.instance.spec EXCEPT !.tlsSecretVersion = 0]
           /\ cloud.spec # pass.instance.spec
                 => \E i \in CallsOn(pass, "update", "SolrCloud") :
                       pass.calls[i].name = "finalizer" /\ pass.calls[i].ok

\* a pass that computed the secret's version and updated nothing of the
\* object left the spec as it was
C36_VersionNotPersisted ==
    /\ pass # NoPass /\ PastDefaulting(pass)
    /\ StatefulSetGenerated(pass)
    /\ pass.desired["statefulSet"].template.tlsSecretVersion # pass.instance.spec.tlsSecretVersion
    /\ cloud.spec = pass.instance.spec

----------------------------------------------------------------------------
\* Ready pods during a managed update

\* (the image is changed while the first pod turns ready; the list and the
\* deletes of pods may fail)
NextRollout ==
    \/ Reconcile
    \/ UserUpgrade
    \/ StatefulSetController
    \/ FirstPodReady

SpecRollout == InitUpdate /\ [][NextRollout]_vars

\* the elements of a sequence
Elements(seq) == {seq[k] : k \in 1..Len(seq)}

\* the pods a pass found ready
ReadyPods(observed) == {i \in DOMAIN observed.pods : observed.pods[i].ready}

\* C37: a pod whose ready condition is true is never classified as not
\* started, so it is never deleted unconditionally: a ready out-of-date pod is
\* deleted in a pass only if the availability policy selects it
C37_ReadyPodNeverNotStarted ==
    pass # NoPass
        => \A i \in ReadyPods(pass) :
              /\ i \notin Elements(pass.outOfDatePodsNotStarted)
              /\ i \in PodsTried(pass) => i \in Elements(pass.additionalPodsToUpdate)

\* C37 witness: a pass found a ready pod and a pod that had not started, both
\* out of date, deleted the one that had not started and left the ready one
C37_Witness ==
    /\ pass # NoPass /\ ManagedPass(pass)
    /\ \E i, j \in OutOfDatePods(pass) :
          /\ pass.pods[i].ready /\ i \notin PodsTried(pass) /\ i \in DOMAIN pods
          /\ j \in NotStartedPods(pass) /\ j \in PodsTried(pass) /\ j \notin DOMAIN pods

\* a pass deleted a ready out-of-date pod: the policy had named it
C37_ReadyPodDeleted ==
    /\ pass # NoPass /\ ManagedPass(pass)
    /\ \E i \in OutOfDatePods(pass) :
          pass.pods[i].ready /\ i \in PodsTried(pass) /\ i \notin DOMAIN pods

----------------------------------------------------------------------------
\* The storage step and the StatefulSet of the same pass

\* the calls of the storage step: lists and deletes of claims, and updates of
\* the object with the finalizer added or removed
StorageCalls(observed) ==
    CallsOn(observed, "list", "PersistentVolumeClaim")
        \cup CallsOn(observed, "delete", "PersistentVolumeClaim")
        \cup FinalizerUpdates(observed, TRUE) \cup FinalizerUpdates(observed, FALSE)

\* C38: the storage step runs only with the claim selector of the StatefulSet
\* that the same pass found or created: a pass in which the StatefulSet
\* neither exists nor is created lists and deletes no claim and neither adds
\* nor removes the finalizer
C38_NoStorageStepWithoutStatefulSet ==
    pass # NoPass /\ ~StatefulSetSeen(pass)
        => StorageCalls(pass) = {} /\ cloud.finalizer = pass.instance.finalizer

\* C38 witness: a pass on an object with the delete reclaim policy and without
\* the finalizer looked the StatefulSet up, did not find it and did not create
\* it, went on to the list of the pods, and left the object without the finalizer
C38_Witness ==
    /\ pass # NoPass /\ ~StatefulSetSeen(pass)
    /\ CallsOn(pass, "get", "StatefulSet") # {}
    /\ CallsOn(pass, "list", "Pod") # {}
    /\ pass.instance.spec.storageDelete /\ ~pass.instance.finalizer
    /\ ~cloud.finalizer

============================================================================
